---------------------------- MODULE Spec2Model ----------------------------
(***************************************************************************)
(* A model of syscall_extract: the type graph built from libclang types    *)
(* (function_extractor.py), the type store and its override rule, the      *)
(* flattening generator (type_utils.py), the per-header merge of           *)
(* extract_syscalls (syscall_extractor.py), the ordered declaration list   *)
(* and the header text of the renderer (output_formatter.py), the end of   *)
(* main (extract_syscalls.py) and TypeInfo.to_argument_name (model.py).    *)
(*                                                                         *)
(* Conventions.                                                            *)
(*  - A Python string is a sequence of tokens; every blank is the token    *)
(*    " " of its own, so that prefix, suffix and strip are computed on the *)
(*    text and not assumed.  A fixed text that the code never takes apart  *)
(*    (a preamble line, the words of a comment) is one token.              *)
(*  - An Optional value is a sequence of length at most one: None is <<>>, *)
(*    a present value x is <<x>>.  An Optional list is <<>> or <<list>>,   *)
(*    which keeps None and the empty list apart as the code does.          *)
(*  - A libclang type is an index into the table ClangType: the table is a *)
(*    graph, and it has cycles where the C declarations are recursive.     *)
(***************************************************************************)
EXTENDS Integers, Sequences, FiniteSets, TLC

VARIABLES
    type_store,     \* function_extractor.py: the store add_to_type_store fills
    prev_store,     \* the store as it was before the last call
    calls,          \* the nodes passed to add_to_type_store so far, in order
    built,          \* the last result of a top-level extract_type_info call
    gen_root,       \* type_utils.flattened: the argument of the generator
    gen_frames,     \* ... the suspended generator frames, innermost last
    gen_out,        \* ... what the running generator has yielded so far
    gen_first,      \* ... the argument as first passed, and what the previous run yielded
    gen_runs,       \* ... how many runs over the argument have finished
    syscall_numbers, \* extract_syscalls: name -> number, in dict order
    found_headers,  \* extract_syscalls: the headers still to be processed
    ctx_type_store, \* extract_syscalls: the run-wide type store
    prev_ctx_store, \* the run-wide store before the last header was merged
    functions_by_name, \* extract_syscalls: matched extern functions by name
    typedefs_store, \* extract_syscalls: the typedefs of all headers by name
    typedefs_needed, \* extract_syscalls: the typedefs the matched functions use
    syscalls,       \* extract_syscalls: the syscall table, number -> Syscall
    types_to_add,   \* output_formatter.get_types_to_add: the returned list
    pc,             \* the phase of the run
    syscall_h,      \* main: what expanding sys/syscall.h gave, None when it failed
    processed,      \* extract_syscalls: the headers taken so far, each with its outcome
    output,         \* main: the lines handed to write_output, None when none were
    exit_status,    \* main: the exit status of the process, None while it runs
    arg_node,       \* TypeInfo.to_argument_name: self
    arg_name,       \* ... argument_name
    arg_out,        \* ... the returned string, None before the call
    arg_unq,        \* get_unqualified_type_name(self), None before the call
    list_od,        \* get_types_to_add: types_to_add, an OrderedDict
    list_prev,      \* ... as it was before the last check_and_add
    list_flat,      \* ... the flat_type of the last check_and_add
    struct_arg,     \* output_c_struct: struct_info
    struct_out      \* ... the returned lines, None before the call

vars == <<type_store, prev_store, calls, built, gen_root, gen_frames, gen_out,
          gen_first, gen_runs, syscall_numbers, found_headers, ctx_type_store,
          prev_ctx_store, functions_by_name, typedefs_store, typedefs_needed, syscalls,
          types_to_add, pc, syscall_h, processed, output, exit_status,
          arg_node, arg_name, arg_out, arg_unq, list_od, list_prev, list_flat,
          struct_arg, struct_out>>

storeVars == <<type_store, prev_store, calls, built>>
genVars   == <<gen_root, gen_frames, gen_out, gen_first, gen_runs>>
runVars   == <<syscall_numbers, found_headers, ctx_type_store, prev_ctx_store,
               functions_by_name, typedefs_store, typedefs_needed, syscalls,
               types_to_add, pc, syscall_h, processed, output, exit_status>>
argVars   == <<arg_node, arg_name, arg_out, arg_unq>>
listVars  == <<list_od, list_prev, list_flat>>
structVars == <<struct_arg, struct_out>>

-----------------------------------------------------------------------------
(* Optional values and strings                                             *)

None == <<>>
Some(x) == <<x>>
IsNone(o) == Len(o) = 0
Get(o) == o[1]

\* Python truthiness of an Optional list: None and [] are both false.
Truthy(optlist) == Len(optlist) = 1 /\ Len(optlist[1]) > 0

\* The list itself, [] for None (only used under a Truthy guard or for len).
ListOf(optlist) == IF Len(optlist) = 0 THEN <<>> ELSE optlist[1]

SP == " "

IsPrefix(p, s) == Len(p) <= Len(s) /\ SubSeq(s, 1, Len(p)) = p
IsSuffix(p, s) == Len(p) <= Len(s) /\ SubSeq(s, Len(s) - Len(p) + 1, Len(s)) = p

\* str.removeprefix / str.removesuffix
RemovePrefix(s, p) == IF IsPrefix(p, s) THEN SubSeq(s, Len(p) + 1, Len(s)) ELSE s
RemoveSuffix(s, p) == IF IsSuffix(p, s) THEN SubSeq(s, 1, Len(s) - Len(p)) ELSE s

RECURSIVE LStrip(_), RStrip(_)
LStrip(s) == IF s /= <<>> /\ Head(s) = SP THEN LStrip(Tail(s)) ELSE s
RStrip(s) == IF s /= <<>> /\ s[Len(s)] = SP THEN RStrip(SubSeq(s, 1, Len(s) - 1)) ELSE s
\* str.strip
Strip(s) == LStrip(RStrip(s))

InSeq(x, s) == \E i \in 1..Len(s) : s[i] = x
Range(s) == {s[i] : i \in 1..Len(s)}

-----------------------------------------------------------------------------
(* model.py                                                                *)

\* TypeInfo with the dataclass defaults, as TypeInfo(name=...) builds it.
TypeInfo(name) ==
    [name |-> name, base_type |-> None, qualifiers |-> None,
     storage_class |-> None, is_typedef |-> FALSE, underlying_type |-> None,
     pointer_to |-> None, is_array |-> FALSE, array_size |-> None,
     array_element |-> None, is_function |-> FALSE, return_type |-> None,
     arguments |-> None, is_structural |-> FALSE, struct_type |-> None,
     struct_fields |-> None, struct_anonymous |-> FALSE,
     enum_constants |-> None, is_elaborated |-> FALSE]

StructField(name, type_info) == [name |-> name, type_info |-> type_info]
EnumConstant(name, value) == [name |-> name, value |-> value]

is_pointer(t) == ~IsNone(t.pointer_to)

-----------------------------------------------------------------------------
(* The libclang types that extract_type_info reads.  Each row holds what   *)
(* the code asks of a clang Type: spelling, kind, the three qualifier      *)
(* tests, get_canonical(), get_pointee(), get_array_element_type(),        *)
(* get_array_size(), get_result(), argument_types() and, for a record or   *)
(* an enum, the declaration's kind and children.  A reference is the row   *)
(* number of the type referred to; canonical = 0 says that the type is its *)
(* own canonical form.                                                     *)

Ty(spelling, kind) ==
    [spelling |-> spelling, kind |-> kind,
     const |-> FALSE, volatile |-> FALSE, restrict |-> FALSE,
     canonical |-> 0, pointee |-> 0, element |-> 0, array_size |-> 0,
     result |-> 0, args |-> <<>>, decl_kind |-> "NO_DECL", children |-> <<>>]

Builtin(spelling) == Ty(spelling, "BUILTIN")
Pointer(spelling, pointee) == [Ty(spelling, "POINTER") EXCEPT !.pointee = pointee]
Elaborated(spelling, canonical) ==
    [Ty(spelling, "ELABORATED") EXCEPT !.canonical = canonical]
TypedefTy(spelling, canonical) ==
    [Ty(spelling, "TYPEDEF") EXCEPT !.canonical = canonical]
ConstantArray(spelling, element, size) ==
    [Ty(spelling, "CONSTANTARRAY") EXCEPT !.element = element, !.array_size = size]
IncompleteArray(spelling, element) ==
    [Ty(spelling, "INCOMPLETEARRAY") EXCEPT !.element = element]
FunctionProto(spelling, result, args) ==
    [Ty(spelling, "FUNCTIONPROTO") EXCEPT !.result = result, !.args = args]
Record(spelling, decl_kind, children) ==
    [Ty(spelling, "RECORD") EXCEPT !.decl_kind = decl_kind, !.children = children]
EnumTy(spelling, children) ==
    [Ty(spelling, "ENUM") EXCEPT !.decl_kind = "ENUM_DECL", !.children = children]

\* A child cursor of a declaration.  enum_value = None: reading it raises.
FieldDecl(name, type) ==
    [kind |-> "FIELD_DECL", spelling |-> name, type |-> type, enum_value |-> None]
OtherDecl(kind, name) ==
    [kind |-> kind, spelling |-> name, type |-> 0, enum_value |-> None]
EnumConstantDecl(name, value) ==
    [kind |-> "ENUM_CONSTANT_DECL", spelling |-> name, type |-> 0, enum_value |-> value]

Tag(keyword, name) == <<keyword, SP, name>>
Star(spelling) == spelling \o <<SP, "*">>

(* The C declarations behind the table.  Rows that spell the same name     *)
(* with different contents are the views different headers have of it: a   *)
(* header that only declares `struct W;` sees rows 55..57, one that        *)
(* defines it sees rows 52..54; rows 75..77 are `const struct W *` where    *)
(* struct W is only declared.                                              *)
(*                                                                         *)
(*   struct S { int x; struct S *next; };          rows 10..13 (a cycle)   *)
(*   struct A { struct B *b; };                                            *)
(*   struct B { struct A *a; };                    rows 20..25 (a cycle)   *)
(*   typedef struct P { int x; long y; } T;        rows 30..33             *)
(*   enum E { A = 0, B };  enum E;                 rows 40..43             *)
(*   typedef enum E T;    (another header)         row  44                 *)
(*   struct Q { int v; };                                                  *)
(*   struct W { struct Q q; long n; };  struct W;  rows 50..58             *)
(*   int (*)(struct S *, struct S *)               rows 60..61             *)
(*   struct H { union { int i; long l; } u; long tail[]; };  rows 70..73   *)
ClangType ==
       (1 :> Builtin(<<"int">>))
    @@ (2 :> Builtin(<<"long">>))
    @@ (3 :> [Builtin(<<"const", SP, "int">>) EXCEPT !.const = TRUE])
    @@ (4 :> [Pointer(<<"int", SP, "*", "restrict">>, 1) EXCEPT !.restrict = TRUE])
    @@ (5 :> ConstantArray(<<"int", "[", "4", "]">>, 1, 4))
    @@ (6 :> IncompleteArray(<<"long", "[", "]">>, 2))
    @@ (10 :> Record(Tag("struct", "S"), "STRUCT_DECL",
                     <<FieldDecl(<<"x">>, 1), FieldDecl(<<"next">>, 12)>>))
    @@ (11 :> Elaborated(Tag("struct", "S"), 10))
    @@ (12 :> Pointer(Star(Tag("struct", "S")), 11))
    @@ (13 :> [Pointer(Star(Tag("struct", "S")) \o <<"const">>, 11)
                 EXCEPT !.const = TRUE])
    @@ (20 :> Record(Tag("struct", "A"), "STRUCT_DECL", <<FieldDecl(<<"b">>, 24)>>))
    @@ (21 :> Elaborated(Tag("struct", "A"), 20))
    @@ (22 :> Pointer(Star(Tag("struct", "A")), 21))
    @@ (23 :> Record(Tag("struct", "B"), "STRUCT_DECL", <<FieldDecl(<<"a">>, 22)>>))
    @@ (24 :> Pointer(Star(Tag("struct", "B")), 25))
    @@ (25 :> Elaborated(Tag("struct", "B"), 23))
    @@ (30 :> Record(Tag("struct", "P"), "STRUCT_DECL",
                     <<FieldDecl(<<"x">>, 1), FieldDecl(<<"y">>, 2)>>))
    @@ (31 :> TypedefTy(<<"T">>, 30))
    @@ (32 :> Elaborated(<<"T">>, 30))
    @@ (33 :> Elaborated(Tag("struct", "P"), 30))
    @@ (40 :> EnumTy(Tag("enum", "E"),
                     <<EnumConstantDecl(<<"A">>, Some(0)),
                       EnumConstantDecl(<<"B">>, None)>>))
    @@ (41 :> Elaborated(Tag("enum", "E"), 40))
    @@ (42 :> EnumTy(Tag("enum", "E"), <<>>))
    @@ (43 :> Elaborated(Tag("enum", "E"), 42))
    @@ (44 :> Elaborated(<<"T">>, 40))
    @@ (50 :> Record(Tag("struct", "Q"), "STRUCT_DECL", <<FieldDecl(<<"v">>, 1)>>))
    @@ (51 :> Elaborated(Tag("struct", "Q"), 50))
    @@ (52 :> Record(Tag("struct", "W"), "STRUCT_DECL",
                     <<FieldDecl(<<"q">>, 51), FieldDecl(<<"n">>, 2)>>))
    @@ (53 :> Elaborated(Tag("struct", "W"), 52))
    @@ (54 :> Pointer(Star(Tag("struct", "W")), 53))
    @@ (55 :> Record(Tag("struct", "W"), "STRUCT_DECL", <<>>))
    @@ (56 :> Elaborated(Tag("struct", "W"), 55))
    @@ (57 :> Pointer(Star(Tag("struct", "W")), 56))
    @@ (58 :> Pointer(Star(Tag("struct", "W")) \o <<"*">>, 54))
    @@ (60 :> FunctionProto(<<"int", SP, "(struct S *, struct S *)">>, 1, <<12, 12>>))
    @@ (61 :> Pointer(<<"int", SP, "(*)", "(struct S *, struct S *)">>, 60))
    @@ (70 :> Record(Tag("union", "(unnamed union at f.h:3:5)"), "UNION_DECL",
                     <<FieldDecl(<<"i">>, 1), FieldDecl(<<"l">>, 2)>>))
    @@ (71 :> Elaborated(Tag("union", "(unnamed union at f.h:3:5)"), 70))
    @@ (72 :> Record(Tag("struct", "H"), "STRUCT_DECL",
                     <<OtherDecl("UNION_DECL", <<>>), FieldDecl(<<"u">>, 71),
                       FieldDecl(<<"tail">>, 6)>>))
    @@ (73 :> Elaborated(Tag("struct", "H"), 72))
    @@ (74 :> Pointer(Star(Tag("struct", "H")), 73))
    @@ (75 :> [Record(<<"const", SP>> \o Tag("struct", "W"), "STRUCT_DECL", <<>>)
                 EXCEPT !.const = TRUE])
    @@ (76 :> [Elaborated(<<"const", SP>> \o Tag("struct", "W"), 75)
                 EXCEPT !.const = TRUE])
    @@ (77 :> Pointer(Star(<<"const", SP>> \o Tag("struct", "W")), 76))
    @@ (80 :> Elaborated(<<"off_t">>, 2))

\* clang_type.get_canonical().spelling
CanonicalSpelling(ct) ==
    IF ct.canonical = 0 THEN ct.spelling ELSE ClangType[ct.canonical].spelling

\* The spellings the anonymous-aggregate pattern of extract_type_info matches:
\* ^(struct|union)(\s+|\s+\w+::|::)\(unnamed(\s+(struct|union))?\s+at\s+.*:\d+:\d+\)$
UnnamedTokens == {"(unnamed at f.h:3:5)", "(unnamed struct at f.h:3:5)",
                  "(unnamed union at f.h:3:5)"}
MatchesUnnamed(spelling) ==
    /\ Len(spelling) = 3
    /\ spelling[1] \in {"struct", "union"}
    /\ spelling[2] = SP
    /\ spelling[3] \in UnnamedTokens

-----------------------------------------------------------------------------
(* function_extractor.extract_type_info                                    *)

\* How deep the recursion may go before the interpreter gives up with a
\* RecursionError; a call chain that reaches it did not return a node.
MaxDepth == 14

\* currently_processing: spelling + ' ' + str(kind).  The kind is the text
\* after the last blank, so the pair determines the string and conversely.
CurrentlyProcessing(ct) == <<ct.spelling, ct.kind>>

\* The qualifier list and the qualifier text `coc`, built in the fixed order
\* const, volatile, restrict and stripped (lines 31-43).
Qualifiers(ct) ==
    (IF ct.const THEN <<"CONST">> ELSE <<>>)
    \o (IF ct.volatile THEN <<"VOLATILE">> ELSE <<>>)
    \o (IF ct.restrict THEN <<"RESTRICT">> ELSE <<>>)

Coc(ct) ==
    Strip((IF ct.const THEN <<"const", SP>> ELSE <<>>)
          \o (IF ct.volatile THEN <<"volatile", SP>> ELSE <<>>)
          \o (IF ct.restrict THEN <<"restrict">> ELSE <<>>))

\* base_name: the canonical spelling with the qualifier text removed from its
\* end for a pointer and from its start for every other kind (lines 44-48).
BaseName(ct) ==
    IF ct.kind = "POINTER"
    THEN Strip(RemoveSuffix(CanonicalSpelling(ct), Coc(ct)))
    ELSE Strip(RemovePrefix(CanonicalSpelling(ct), Coc(ct)))

\* The name-only node returned where the recursion is cut (line 26).
NameOnly(spelling) == TypeInfo(spelling)

\* A test that never cuts the recursion.
BreakRecursionNever(currently_processing, processing_types, kind) == FALSE

\* The test that cuts the recursion (line 24).
BreakRecursion(currently_processing, processing_types, kind) ==
    InSeq(currently_processing, processing_types) /\ kind = "ELABORATED"

\* What a call hands back: the node, the processing list as the call left it
\* (the list is shared by the whole call chain and only ever appended to),
\* and ok = FALSE when the call chain ran into the recursion limit.
Returned(info, processing_types) ==
    [info |-> info, processing_types |-> processing_types, ok |-> TRUE]
Raised(processing_types) ==
    [info |-> TypeInfo(<<>>), processing_types |-> processing_types, ok |-> FALSE]

\* The enum constants of a declaration (lines 146-156).
RECURSIVE EnumConstantsOf(_)
EnumConstantsOf(children) ==
    IF children = <<>> THEN <<>>
    ELSE (IF Head(children).kind = "ENUM_CONSTANT_DECL"
          THEN <<EnumConstant(Head(children).spelling, Head(children).enum_value)>>
          ELSE <<>>)
         \o EnumConstantsOf(Tail(children))

StructTypeOf(decl_kind) ==
    IF decl_kind = "STRUCT_DECL" THEN Some("STRUCT")
    ELSE IF decl_kind = "UNION_DECL" THEN Some("UNION")
    ELSE None

RECURSIVE ExtractTypeInfo(_, _, _), ExtractEach(_, _, _), ExtractFields(_, _, _)
RECURSIVE ExtractFrom(_, _, _)

\* extract_type_info over a list of types, left to right (line 95).
ExtractEach(types, processing_types, depth) ==
    IF types = <<>> THEN [infos |-> <<>>, processing_types |-> processing_types, ok |-> TRUE]
    ELSE LET first == ExtractTypeInfo(Head(types), processing_types, depth)
         IN  IF ~first.ok
             THEN [infos |-> <<>>, processing_types |-> first.processing_types, ok |-> FALSE]
             ELSE LET rest == ExtractEach(Tail(types), first.processing_types, depth)
                  IN  [infos |-> <<first.info>> \o rest.infos,
                       processing_types |-> rest.processing_types,
                       ok |-> rest.ok]

\* The field loop of a record (lines 116-123): children that are no FIELD_DECL
\* are skipped.
ExtractFields(children, processing_types, depth) ==
    IF children = <<>> THEN [infos |-> <<>>, processing_types |-> processing_types, ok |-> TRUE]
    ELSE IF Head(children).kind /= "FIELD_DECL"
    THEN ExtractFields(Tail(children), processing_types, depth)
    ELSE LET first == ExtractTypeInfo(Head(children).type, processing_types, depth)
         IN  IF ~first.ok
             THEN [infos |-> <<>>, processing_types |-> first.processing_types, ok |-> FALSE]
             ELSE LET rest == ExtractFields(Tail(children), first.processing_types, depth)
                  IN  [infos |-> <<StructField(Head(children).spelling, first.info)>>
                                 \o rest.infos,
                       processing_types |-> rest.processing_types,
                       ok |-> rest.ok]

\* The body of extract_type_info for the clang type with the row ct.
ExtractFrom(ct, processing_types, depth) ==
    LET currently_processing == CurrentlyProcessing(ct)
        pt == Append(processing_types, currently_processing)
        base == [TypeInfo(ct.spelling) EXCEPT
                     !.base_type = Some(BaseName(ct)),
                     !.qualifiers = Some(Qualifiers(ct))]
    IN
    IF depth > MaxDepth THEN Raised(processing_types)
    ELSE IF BreakRecursion(currently_processing, processing_types, ct.kind)
    THEN Returned(NameOnly(ct.spelling), processing_types)
    ELSE IF ct.kind = "POINTER" THEN
        LET pointee_info == ExtractTypeInfo(ct.pointee, pt, depth + 1)
        IN  IF ~pointee_info.ok THEN Raised(pointee_info.processing_types)
            ELSE Returned([base EXCEPT !.pointer_to = Some(pointee_info.info)],
                          pointee_info.processing_types)
    ELSE IF ct.kind = "ELABORATED" THEN
        LET underlying_info == ExtractTypeInfo(ct.canonical, pt, depth + 1)
        IN  IF ~underlying_info.ok THEN Raised(underlying_info.processing_types)
            ELSE Returned([underlying_info.info EXCEPT
                               !.name = ct.spelling, !.is_elaborated = TRUE],
                          underlying_info.processing_types)
    ELSE IF ct.kind \in {"CONSTANTARRAY", "INCOMPLETEARRAY"} THEN
        LET element_info == ExtractTypeInfo(ct.element, pt, depth + 1)
        IN  IF ~element_info.ok THEN Raised(element_info.processing_types)
            ELSE Returned([base EXCEPT
                               !.base_type = Some(element_info.info.name \o <<"[", "]">>),
                               !.is_array = TRUE,
                               !.array_size = IF ct.kind = "CONSTANTARRAY"
                                              THEN Some(ct.array_size) ELSE None,
                               !.array_element = Some(element_info.info)],
                          element_info.processing_types)
    ELSE IF ct.kind = "FUNCTIONPROTO" THEN
        LET return_type_info == ExtractTypeInfo(ct.result, pt, depth + 1)
        IN  IF ~return_type_info.ok THEN Raised(return_type_info.processing_types)
            ELSE LET arg_types == ExtractEach(ct.args, return_type_info.processing_types,
                                              depth + 1)
                 IN  IF ~arg_types.ok THEN Raised(arg_types.processing_types)
                     ELSE Returned([base EXCEPT
                                        !.is_function = TRUE,
                                        !.return_type = Some(return_type_info.info),
                                        !.arguments = Some(arg_types.infos)],
                                   arg_types.processing_types)
    ELSE IF ct.kind = "RECORD" THEN
        LET fields == ExtractFields(ct.children, pt, depth + 1)
        IN  IF ~fields.ok THEN Raised(fields.processing_types)
            ELSE Returned([base EXCEPT
                               !.is_structural = TRUE,
                               !.struct_type = StructTypeOf(ct.decl_kind),
                               !.struct_fields = Some(fields.infos),
                               !.struct_anonymous = MatchesUnnamed(ct.spelling)],
                          fields.processing_types)
    ELSE IF ct.kind = "ENUM" THEN
        Returned([base EXCEPT
                      !.is_structural = TRUE,
                      !.struct_type = Some("ENUM"),
                      !.enum_constants = Some(EnumConstantsOf(ct.children))],
                 pt)
    ELSE IF ct.kind = "TYPEDEF" THEN
        LET underlying_info == ExtractTypeInfo(ct.canonical, pt, depth + 1)
        IN  IF ~underlying_info.ok THEN Raised(underlying_info.processing_types)
            ELSE Returned([TypeInfo(ct.spelling) EXCEPT
                               !.is_typedef = TRUE,
                               !.base_type = Some(ClangType[ct.canonical].spelling),
                               !.underlying_type =
                                   Some([underlying_info.info EXCEPT
                                            !.is_elaborated =
                                                underlying_info.info.is_structural
                                                \/ @]),
                               !.qualifiers = Some(Qualifiers(ct)),
                               !.storage_class = Some("TYPEDEF")],
                          underlying_info.processing_types)
    ELSE Returned(base, pt)

\* extract_type_info(clang_type, processing_types), at recursion depth `depth`.
ExtractTypeInfo(type, processing_types, depth) ==
    ExtractFrom(ClangType[type], processing_types, depth)

\* A top-level call: processing_types=None starts a fresh list (lines 17-18).
ExtractTopLevel(type) == ExtractTypeInfo(type, <<>>, 0)

-----------------------------------------------------------------------------
(* function_extractor.add_to_type_store                                    *)

\* A store is a function from names to nodes; the empty dict:
EmptyStore == <<>>

\* The insertion without its test: the last node of a name wins.
InsertAlways(store, type_info) ==
    IF type_info.name \in DOMAIN store
    THEN [store EXCEPT ![type_info.name] = type_info]
    ELSE store @@ (type_info.name :> type_info)
\* Lines 200-202: the node is stored under its name unless the name is taken.
InsertIfAbsent(store, type_info) ==
    IF type_info.name \notin DOMAIN store
    THEN store @@ (type_info.name :> type_info)
    ELSE store

FieldTypes(fields) == [i \in 1..Len(fields) |-> fields[i].type_info]
\* The recursion without its last loop, the one over the fields.
ChildrenWithoutFields(type_info) ==
    type_info.pointer_to \o type_info.array_element \o type_info.return_type
    \o (IF Truthy(type_info.arguments) THEN Get(type_info.arguments) ELSE <<>>)
\* Lines 204-219: the sub-nodes the call recurses into, in the order of the
\* code: pointee, array element, return type, arguments, field types.
Children(type_info) ==
    type_info.pointer_to \o type_info.array_element \o type_info.return_type
    \o (IF Truthy(type_info.arguments) THEN Get(type_info.arguments) ELSE <<>>)
    \o (IF Truthy(type_info.struct_fields)
        THEN FieldTypes(Get(type_info.struct_fields)) ELSE <<>>)

\* The test without its look at the incoming node's field list.
OverrideWithoutFieldTest(type_info, old_type_info) ==
    /\ type_info.is_structural
    /\ (IsNone(old_type_info.struct_fields)
        \/ Len(Get(old_type_info.struct_fields)) = 0)
\* Lines 224-226: when the incoming node replaces the stored one.
OverrideCondition(type_info, old_type_info) ==
    /\ type_info.is_structural
    /\ ~IsNone(type_info.struct_fields)
    /\ Len(Get(type_info.struct_fields)) > 0
    /\ (IsNone(old_type_info.struct_fields)
        \/ Len(Get(old_type_info.struct_fields)) = 0)

\* The override storing the node under the name of its canonical type.
OverrideForwardRenamed(store, type_info) ==
    IF type_info.name \in DOMAIN store
       /\ OverrideCondition(type_info, store[type_info.name])
    THEN [store EXCEPT ![type_info.name] =
                           [type_info EXCEPT !.name = Get(type_info.base_type)]]
    ELSE store
\* Lines 221-228.
OverrideForward(store, type_info) ==
    IF type_info.name \in DOMAIN store
       /\ OverrideCondition(type_info, store[type_info.name])
    THEN [store EXCEPT ![type_info.name] = type_info]
    ELSE store

RECURSIVE AddToTypeStore(_, _), AddEach(_, _)
AddEach(store, type_infos) ==
    IF type_infos = <<>> THEN store
    ELSE AddEach(AddToTypeStore(store, Head(type_infos)), Tail(type_infos))

\* add_to_type_store(type_store, type_info); the dict is changed in place, the
\* operator gives the dict after the call.
AddToTypeStore(store, type_info) ==
    OverrideForward(AddEach(InsertIfAbsent(store, type_info), Children(type_info)),
                    type_info)

-----------------------------------------------------------------------------
(* The store under calls add_to_type_store(type_store, extract_type_info(t)) *)
(* as extract_extern_functions makes them for the result type and the      *)
(* argument types of a function and for a typedef (lines 262, 269, 291,    *)
(* 292), for the types of CursorTypes in any order and with repetition.    *)

\* The types of the cursors: see the table.
CursorTypes == {12, 22, 31, 32, 41, 43, 44, 53, 54, 56, 61, 73}

\* How many calls a behaviour makes.
MaxCalls == 3

Last(s) == s[Len(s)]

\* The parts of the state a specification does not use stay as they are here.
IdleStore ==
    type_store = EmptyStore /\ prev_store = EmptyStore /\ calls = <<>> /\ built = None
IdleGen ==
    /\ gen_root = None /\ gen_frames = <<>> /\ gen_out = <<>>
    /\ gen_first = None /\ gen_runs = 0
IdleRun ==
    /\ syscall_numbers = <<>>
    /\ found_headers = <<>> /\ ctx_type_store = EmptyStore
    /\ prev_ctx_store = EmptyStore /\ functions_by_name = EmptyStore
    /\ typedefs_store = EmptyStore /\ typedefs_needed = {}
    /\ syscalls = EmptyStore /\ types_to_add = None /\ pc = "idle"
    /\ syscall_h = None /\ processed = <<>> /\ output = None /\ exit_status = None
IdleArg ==
    arg_node = None /\ arg_name = <<>> /\ arg_out = None /\ arg_unq = None
IdleList ==
    list_od = <<>> /\ list_prev = <<>> /\ list_flat = None
IdleStruct ==
    struct_arg = None /\ struct_out = None

\* type_store = {} (line 251)
InitStore == IdleStore /\ IdleGen /\ IdleRun /\ IdleArg /\ IdleList /\ IdleStruct

\* One cursor type is extracted and added.  A RecursionError leaves the
\* handler of the cursor (lines 281, 301) before the store is touched.
ProcessCursorType(t) ==
    /\ Len(calls) < MaxCalls
    /\ LET result == ExtractTopLevel(t)
       IN  /\ built' = Some(result)
           /\ IF result.ok
              THEN /\ calls' = Append(calls, result.info)
                   /\ prev_store' = type_store
                   /\ type_store' = AddToTypeStore(type_store, result.info)
              ELSE UNCHANGED <<calls, prev_store, type_store>>
    /\ UNCHANGED <<genVars, runVars, argVars, listVars, structVars>>

NextStore == \E t \in CursorTypes : ProcessCursorType(t)

SpecStore == InitStore /\ [][NextStore]_vars

-----------------------------------------------------------------------------
(* Properties of the store                                                 *)

\* The nodes reachable from a node through pointee, element, return-type,
\* parameter and field edges, the node itself included.
RECURSIVE SubNodes(_)
SubNodes(n) ==
    {n}
    \cup UNION {SubNodes(m) : m \in Range(n.pointer_to)}
    \cup UNION {SubNodes(m) : m \in Range(n.array_element)}
    \cup UNION {SubNodes(m) : m \in Range(n.return_type)}
    \cup UNION {SubNodes(m) : m \in Range(ListOf(n.arguments))}
    \cup UNION {SubNodes(f.type_info) : f \in Range(ListOf(n.struct_fields))}

StrictSubNodes(n) == UNION {SubNodes(m) : m \in Range(Children(n))}

\* A full definition has a non-empty field or constant list, a forward
\* declaration is structural with neither.
FullDefinition(n) ==
    n.is_structural /\ (Truthy(n.struct_fields) \/ Truthy(n.enum_constants))
ForwardDeclaration(n) ==
    n.is_structural /\ ~Truthy(n.struct_fields) /\ ~Truthy(n.enum_constants)

\* The names whose entry the last call changed.
Replaced == {N \in DOMAIN prev_store : type_store[N] /= prev_store[N]}

\* C1: a forward declaration and then a full definition of one name and
\* kind, added to an empty store in either order, leave the full definition
\* under the name.  (Stated as the claim has it; it fails for an enum, whose
\* constants the override test never looks at.)
C1_UpgradeInEitherOrder ==
    (/\ Len(calls) = 2
     /\ calls[1].name = calls[2].name
     /\ calls[1].struct_type = calls[2].struct_type
     /\ \/ ForwardDeclaration(calls[1]) /\ FullDefinition(calls[2])
        \/ FullDefinition(calls[1]) /\ ForwardDeclaration(calls[2]))
    => type_store[calls[1].name]
         = (IF FullDefinition(calls[1]) THEN calls[1] ELSE calls[2])

\* C2: once the entry of a name is a full definition, no later call
\* replaces it.  (Stated as the claim has it; it fails when the entry is a
\* fully defined enum and a struct with fields arrives under the name.)
C2_FullDefinitionStays ==
    \A N \in DOMAIN prev_store :
        FullDefinition(prev_store[N]) => type_store[N] = prev_store[N]

C5_CycleCutByNameOnlyStub ==
    \A r \in Range(built) :
        /\ r.ok
        /\ \A t \in DOMAIN ClangType :
               (/\ ClangType[t].kind = "ELABORATED"
                /\ InSeq(CurrentlyProcessing(ClangType[t]), r.processing_types))
               => ExtractTypeInfo(t, r.processing_types, 0)
                    = Returned(TypeInfo(ClangType[t].spelling), r.processing_types)
        /\ \A n \in SubNodes(r.info) :
               n.is_elaborated =>
                   \A m \in StrictSubNodes(n) :
                       m.name = n.name => m = TypeInfo(n.name)

\* A self-referential struct has been built: below the elaborated struct
\* there is the name-only node of its own name.
C5_Witness ==
    \E r \in Range(built) :
        /\ r.ok
        /\ \E n \in SubNodes(r.info) :
               /\ n.is_elaborated /\ Truthy(n.struct_fields)
               /\ \E m \in StrictSubNodes(n) : m = TypeInfo(n.name)

\* C6: after a call, the name of every node reachable from the node passed
\* is a key of the store.
C6_ReachableNamesAreKeys ==
    calls /= <<>> =>
        \A m \in SubNodes(Last(calls)) : m.name \in DOMAIN type_store

\* The root's name was a key before the call, and the call registered
\* sub-nodes that were not.
C6_Witness ==
    /\ calls /= <<>>
    /\ Last(calls).name \in DOMAIN prev_store
    /\ \E m \in SubNodes(Last(calls)) : m.name \notin DOMAIN prev_store

\* The override rule, read off the store's behaviour: new upgrades old.
Upgrades(new, old) ==
    new.is_structural /\ Truthy(new.struct_fields) /\ ~Truthy(old.struct_fields)

-----------------------------------------------------------------------------
(* type_utils.flattened                                                    *)
(*                                                                         *)
(* A TypeInfo has no __iter__, so the first branch of the generator (lines *)
(* 7-10) is not taken for a node and for none of the nodes it recurses     *)
(* into.                                                                   *)

\* The delegations of one generator body (lines 13-24), in the order of the
\* code but with the arguments ahead of the return type.
FlattenChildrenArgumentsFirst(type_info) ==
    type_info.pointer_to \o type_info.array_element
    \o (IF Truthy(type_info.arguments) THEN Get(type_info.arguments) ELSE <<>>)
    \o type_info.return_type
    \o (IF Truthy(type_info.struct_fields)
        THEN FieldTypes(Get(type_info.struct_fields)) ELSE <<>>)
\* The delegations of one generator body (lines 13-24), in the order of the
\* code: pointee, array element, return type, arguments, field types.
FlattenChildren(type_info) ==
    type_info.pointer_to \o type_info.array_element \o type_info.return_type
    \o (IF Truthy(type_info.arguments) THEN Get(type_info.arguments) ELSE <<>>)
    \o (IF Truthy(type_info.struct_fields)
        THEN FieldTypes(Get(type_info.struct_fields)) ELSE <<>>)

\* list(flattened(type_info)): everything the generator yields.
RECURSIVE Flattened(_), FlattenedEach(_)
FlattenedEach(type_infos) ==
    IF type_infos = <<>> THEN <<>>
    ELSE Flattened(Head(type_infos)) \o FlattenedEach(Tail(type_infos))
Flattened(type_info) ==
    <<type_info>> \o FlattenedEach(FlattenChildren(type_info))

(* The generator step by step.  The argument stays where the caller keeps  *)
(* it, in gen_root; a generator frame refers to its node by the path from  *)
(* the argument (the positions among the delegations) and remembers how    *)
(* far its body has run: pos = 0 before its own yield, then the number of  *)
(* the delegation to start next.                                           *)

RECURSIVE NodeAt(_, _)
NodeAt(root, path) ==
    IF path = <<>> THEN root
    ELSE NodeAt(FlattenChildren(root)[Head(path)], Tail(path))

\* A call flattened(type_info) makes a generator that has not run yet.
NewGenerator == <<[path |-> <<>>, pos |-> 0]>>

\* A generator that empties the argument list of a node once it has
\* delegated to all of it.
RECURSIVE WithoutArguments(_, _)
WithoutArguments(root, path) ==
    IF path = <<>> THEN [root EXCEPT !.arguments = IF IsNone(@) THEN @ ELSE Some(<<>>)]
    ELSE LET i == Head(path)
             np == Len(root.pointer_to)
             ne == Len(root.array_element)
             nr == Len(root.return_type)
             na == Len(ListOf(root.arguments))
         IN  IF i <= np
             THEN [root EXCEPT !.pointer_to = Some(WithoutArguments(Get(@), Tail(path)))]
             ELSE IF i <= np + ne
             THEN [root EXCEPT !.array_element = Some(WithoutArguments(Get(@), Tail(path)))]
             ELSE IF i <= np + ne + nr
             THEN [root EXCEPT !.return_type = Some(WithoutArguments(Get(@), Tail(path)))]
             ELSE IF i <= np + ne + nr + na
             THEN [root EXCEPT !.arguments =
                       Some([Get(@) EXCEPT ![i - np - ne - nr] =
                                 WithoutArguments(@, Tail(path))])]
             ELSE [root EXCEPT !.struct_fields =
                       Some([Get(@) EXCEPT ![i - np - ne - nr - na].type_info =
                                 WithoutArguments(@, Tail(path))])]
RECURSIVE ResumeConsuming(_, _)
ResumeConsuming(root, frames) ==
    IF frames = <<>> THEN [root |-> root, frames |-> <<>>, yielded |-> None]
    ELSE LET top == Len(frames)
             frame == frames[top]
             type_info == NodeAt(root, frame.path)
             delegations == FlattenChildren(type_info)
         IN  IF frame.pos = 0
             THEN [root |-> root,
                   frames |-> [frames EXCEPT ![top].pos = 1],
                   yielded |-> Some(type_info)]
             ELSE IF frame.pos <= Len(delegations)
             THEN ResumeConsuming(root,
                      Append([frames EXCEPT ![top].pos = frame.pos + 1],
                             [path |-> Append(frame.path, frame.pos), pos |-> 0]))
             ELSE ResumeConsuming(WithoutArguments(root, frame.path),
                                  SubSeq(frames, 1, top - 1))

\* next() on the generator: the innermost frame runs on to the next yield;
\* a body that has run to its end returns to the frame that delegated to it,
\* and when the outermost body ends the generator is exhausted (yielded is
\* None).  No statement of the body assigns to a node: root is handed back
\* as it came.
RECURSIVE Resume(_, _)
Resume(root, frames) ==
    IF frames = <<>> THEN [root |-> root, frames |-> <<>>, yielded |-> None]
    ELSE LET top == Len(frames)
             frame == frames[top]
             type_info == NodeAt(root, frame.path)
             delegations == FlattenChildren(type_info)
         IN  IF frame.pos = 0
             THEN [root |-> root,
                   frames |-> [frames EXCEPT ![top].pos = 1],
                   yielded |-> Some(type_info)]
             ELSE IF frame.pos <= Len(delegations)
             THEN Resume(root,
                      Append([frames EXCEPT ![top].pos = frame.pos + 1],
                             [path |-> Append(frame.path, frame.pos), pos |-> 0]))
             ELSE Resume(root, SubSeq(frames, 1, top - 1))

\* The nodes flattened is called with: the nodes built for these types.
FlattenTypes == {4, 5, 12, 13, 22, 31, 32, 41, 53, 54, 58, 61, 73}

\* How many times the same argument is flattened.
MaxRuns == 2

InitFlatten ==
    /\ IdleStore /\ IdleRun /\ IdleArg /\ IdleList /\ IdleStruct
    /\ \E t \in FlattenTypes : gen_root = Some(ExtractTopLevel(t).info)
    /\ gen_frames = NewGenerator
    /\ gen_out = <<>>
    /\ gen_first = [root |-> Get(gen_root), out |-> None]
    /\ gen_runs = 0

\* The consumer (list(...), reversed(list(...))) asks for the next node.
GenNext ==
    /\ gen_frames /= <<>>
    /\ LET r == Resume(Get(gen_root), gen_frames)
       IN  /\ gen_root' = Some(r.root)
           /\ gen_frames' = r.frames
           /\ IF IsNone(r.yielded)
              THEN gen_out' = gen_out /\ gen_runs' = gen_runs + 1
              ELSE gen_out' = Append(gen_out, Get(r.yielded)) /\ gen_runs' = gen_runs
    /\ UNCHANGED <<gen_first, storeVars, runVars, argVars, listVars, structVars>>

\* The same argument is flattened again, by a new generator.
GenAgain ==
    /\ gen_frames = <<>>
    /\ gen_runs >= 1
    /\ gen_runs < MaxRuns
    /\ gen_first' = [gen_first EXCEPT !.out = Some(gen_out)]
    /\ gen_frames' = NewGenerator
    /\ gen_out' = <<>>
    /\ UNCHANGED <<gen_root, gen_runs, storeVars, runVars, argVars, listVars, structVars>>

NextFlatten == GenNext \/ GenAgain

SpecFlatten == InitFlatten /\ [][NextFlatten]_vars

-----------------------------------------------------------------------------
(* Properties of flattened                                                 *)

\* The five edge kinds in the order the contract gives them.
Edges(n) ==
    n.pointer_to \o n.array_element \o n.return_type
    \o ListOf(n.arguments) \o FieldTypes(ListOf(n.struct_fields))

\* The positions of a tree: the paths along the edges from its root.
RECURSIVE Positions(_)
Positions(n) ==
    {<<>>} \cup UNION {{<<i>> \o p : p \in Positions(Edges(n)[i])}
                       : i \in 1..Len(Edges(n))}

RECURSIVE At(_, _)
At(n, p) == IF p = <<>> THEN n ELSE At(Edges(n)[Head(p)], Tail(p))

\* Pre-order on positions: a position comes before the positions below it,
\* and the sub-tree of an earlier edge before the sub-tree of a later one.
Before(p, q) ==
    \/ Len(p) < Len(q) /\ SubSeq(q, 1, Len(p)) = p
    \/ \E k \in 1..Len(p) :
           /\ k <= Len(q)
           /\ SubSeq(p, 1, k - 1) = SubSeq(q, 1, k - 1)
           /\ p[k] < q[k]

PreOrder(n, out) ==
    /\ Len(out) = Cardinality(Positions(n))
    /\ \A p \in Positions(n) :
           out[1 + Cardinality({q \in Positions(n) : Before(q, p)})] = At(n, p)

GenExhausted == gen_frames = <<>> /\ gen_runs >= 1

\* C9: what flattened(node) yields is the pre-order sequence of the node's
\* tree: the node first, then the sub-sequences of pointee, element, return
\* type, parameters and fields in that order; every reachable node is in it
\* and stands before all nodes of its own sub-tree.
C9_FlattenedIsPreOrder ==
    GenExhausted =>
        /\ PreOrder(Get(gen_root), gen_out)
        /\ gen_out[1] = Get(gen_root)
        /\ Range(gen_out) = SubNodes(Get(gen_root))
        /\ gen_out = Flattened(Get(gen_root))

\* A function type with a return type and two parameters has been flattened.
C9_Witness ==
    /\ GenExhausted
    /\ \E i \in 1..Len(gen_out) :
           /\ gen_out[i].is_function
           /\ Len(ListOf(gen_out[i].arguments)) = 2
           /\ ~IsNone(gen_out[i].return_type)

\* C10: flattening the same node again yields the same sequence, and the
\* node is what it was before it was flattened.
C10_FlattenedAgainIsTheSame ==
    ~IsNone(gen_root) =>
        /\ Get(gen_root) = gen_first.root
        /\ (GenExhausted /\ ~IsNone(gen_first.out)) => gen_out = Get(gen_first.out)

\* A second run over a node with sub-nodes has finished.
C10_Witness ==
    /\ GenExhausted
    /\ gen_runs = 2
    /\ ~IsNone(gen_first.out)
    /\ Len(gen_out) > 3

-----------------------------------------------------------------------------
(* type_utils.get_unqualified_type_name                                    *)

\* The qualifier text with volatile put before const.
UnqualifiedCocVolatileFirst(qualifiers) ==
    Strip((IF InSeq("VOLATILE", qualifiers) THEN <<"volatile", SP>> ELSE <<>>)
          \o (IF InSeq("CONST", qualifiers) THEN <<"const", SP>> ELSE <<>>)
          \o (IF InSeq("RESTRICT", qualifiers) THEN <<"restrict", SP>> ELSE <<>>))
\* coc (lines 31-38): const, volatile, restrict in this order, stripped.
UnqualifiedCoc(qualifiers) ==
    Strip((IF InSeq("CONST", qualifiers) THEN <<"const", SP>> ELSE <<>>)
          \o (IF InSeq("VOLATILE", qualifiers) THEN <<"volatile", SP>> ELSE <<>>)
          \o (IF InSeq("RESTRICT", qualifiers) THEN <<"restrict", SP>> ELSE <<>>))

get_unqualified_type_name(type_info) ==
    IF IsNone(type_info.qualifiers) THEN type_info.name
    ELSE IF is_pointer(type_info)
    THEN Strip(RemoveSuffix(type_info.name, UnqualifiedCoc(Get(type_info.qualifiers))))
    ELSE Strip(RemovePrefix(type_info.name, UnqualifiedCoc(Get(type_info.qualifiers))))

-----------------------------------------------------------------------------
(* function_extractor.extract_extern_functions                             *)

\* The cursors of a translation unit that the walk looks at.
FunctionDecl(name, linkage, result_type, arguments) ==
    [kind |-> "FUNCTION_DECL", spelling |-> name, linkage |-> linkage,
     result_type |-> result_type, arguments |-> arguments,
     type |-> 0, underlying_typedef_type |-> 0]
TypedefDecl(name, type, underlying_typedef_type) ==
    [kind |-> "TYPEDEF_DECL", spelling |-> name, linkage |-> 0,
     result_type |-> 0, arguments |-> <<>>,
     type |-> type, underlying_typedef_type |-> underlying_typedef_type]
ParmDecl(name, type) == [spelling |-> name, type |-> type]

(* The expanded headers.  a.h only declares struct W, b.h defines it:      *)
(*   a.h:  struct W;  int f(struct W *p);                                  *)
(*         typedef long off_t;  struct H {...};                            *)
(*         long k(struct H *hp, off_t o);                                  *)
(*   b.h:  struct Q {...}; struct W {...};  int g(struct W **pp);          *)
(*         static int local(int);                                          *)
(*   c.h:  typedef struct P {...} T;  struct S {...};  enum E {...};       *)
(*         T h(struct S *s, enum E e);                                     *)
HeaderNames == {"a.h", "b.h", "c.h"}
HeaderCursors ==
       ("a.h" :> <<FunctionDecl(<<"f">>, 1, 1, <<ParmDecl(<<"p">>, 57)>>),
                   FunctionDecl(<<"k">>, 1, 2,
                                <<ParmDecl(<<"hp">>, 74), ParmDecl(<<"o">>, 80)>>)>>)
    @@ ("b.h" :> <<FunctionDecl(<<"g">>, 1, 1, <<ParmDecl(<<"pp">>, 58)>>),
                   FunctionDecl(<<"local">>, 0, 1, <<ParmDecl(<<>>, 1)>>)>>)
    @@ ("c.h" :> <<TypedefDecl(<<"T">>, 31, 33),
                   FunctionDecl(<<"h">>, 1, 32,
                                <<ParmDecl(<<"s">>, 12), ParmDecl(<<"e">>, 41)>>)>>)

Function(name, return_type, arguments) ==
    [name |-> name, return_type |-> return_type, arguments |-> arguments]
FunctionArg(name, type) == [name |-> name, type |-> type]
Typedef(name, underlying_type) == [name |-> name, underlying_type |-> underlying_type]

\* add_to_type_store(type_store, node) for the outcome of an extraction; a
\* RecursionError (ok = FALSE) leaves the handler of the cursor, the store as
\* the calls before it have left it.
AddResult(store, result) ==
    IF result.ok THEN [store |-> AddToTypeStore(store, result.info), ok |-> TRUE]
    ELSE [store |-> store, ok |-> FALSE]

\* add_to_type_store(type_store, extract_type_info(t))
AddExtracted(store, t) == AddResult(store, ExtractTopLevel(t))

\* The calls a cursor's handler makes one after the other, up to the first
\* that raises.
RECURSIVE AddExtractedEach(_, _)
AddExtractedEach(added, types) ==
    IF types = <<>> \/ ~added.ok THEN added
    ELSE AddExtractedEach(AddExtracted(added.store, Head(types)), Tail(types))

\* The argument list of a function declaration (lines 265-270).
ArgumentTypes(arguments) == [i \in 1..Len(arguments) |-> arguments[i].type]
FunctionArgs(arguments) ==
    [i \in 1..Len(arguments) |->
        FunctionArg(arguments[i].spelling, ClangType[arguments[i].type].spelling)]

\* The end of a handler: the element is appended when no call has raised
\* (lines 279, 294); the store keeps what the calls have added either way.
Visited(acc, added, functions, typedefs) ==
    [extern_functions |-> IF added.ok THEN acc.extern_functions \o functions
                          ELSE acc.extern_functions,
     typedefs |-> IF added.ok THEN acc.typedefs \o typedefs ELSE acc.typedefs,
     type_store |-> added.store]

\* One cursor of the walk (lines 255-303): a function declaration with
\* linkage extracts its result type and then its argument types, a typedef
\* declaration its type and then its underlying type.
VisitCursor(acc, cursor) ==
    IF cursor.kind = "FUNCTION_DECL" /\ cursor.linkage /= 0 THEN
        Visited(acc,
                AddExtractedEach([store |-> acc.type_store, ok |-> TRUE],
                                 <<cursor.result_type>>
                                 \o ArgumentTypes(cursor.arguments)),
                <<Function(cursor.spelling, ClangType[cursor.result_type].spelling,
                           FunctionArgs(cursor.arguments))>>,
                <<>>)
    ELSE IF cursor.kind = "TYPEDEF_DECL" THEN
        Visited(acc,
                AddExtractedEach([store |-> acc.type_store, ok |-> TRUE],
                                 <<cursor.type, cursor.underlying_typedef_type>>),
                <<>>,
                <<Typedef(cursor.spelling,
                          CanonicalSpelling(ClangType[cursor.underlying_typedef_type]))>>)
    ELSE acc

RECURSIVE WalkCursors(_, _)
WalkCursors(acc, cursors) ==
    IF cursors = <<>> THEN acc
    ELSE WalkCursors(VisitCursor(acc, Head(cursors)), Tail(cursors))

\* extract_extern_functions(header_content, header_name)
ExtractExternFunctions(header) ==
    WalkCursors([extern_functions |-> <<>>, typedefs |-> <<>>, type_store |-> EmptyStore],
                HeaderCursors[header])

-----------------------------------------------------------------------------
(* syscall_extractor.extract_syscalls                                      *)

Syscall(name, number, header_name) ==
    [name |-> name, number |-> number, header_name |-> header_name, function |-> None]

\* The store replaced by `other` instead of updated with it.
UpdateReplacing(store, other) == other
\* dict.update: the entries of `other` replace those of the same key.
Update(store, other) == other @@ store

\* d[key] = value
SetItem(d, key, value) ==
    IF key \in DOMAIN d THEN [d EXCEPT ![key] = value] ELSE d @@ (key :> value)

\* Lines 132-135: one Syscall per number, made in the dict order of the names.
RECURSIVE InitialSyscalls(_)
InitialSyscalls(numbers) ==
    IF numbers = <<>> THEN EmptyStore
    ELSE SetItem(InitialSyscalls(SubSeq(numbers, 1, Len(numbers) - 1)),
                 Last(numbers).number,
                 Syscall(Last(numbers).name, Last(numbers).number, "sys/syscall.h"))

\* An item of the dict syscall_numbers, kept in insertion order.
NR(name, number) == [name |-> name, number |-> number]

(* syscall_extractor.extract_syscall_numbers.  A line is the list of its   *)
(* words (line.split()), a word the list of its pieces; the prefix          *)
(* "__NR_" and each character of a number are pieces of their own, so that *)
(* `NR_PATTERN in line`, startswith and int() read what the code reads.    *)
NR_PATTERN == "__NR_"
Digit == ("0" :> 0) @@ ("1" :> 1) @@ ("2" :> 2) @@ ("3" :> 3) @@ ("4" :> 4)
         @@ ("5" :> 5) @@ ("6" :> 6) @@ ("7" :> 7) @@ ("8" :> 8) @@ ("9" :> 9)

\* int(number) raises ValueError unless the word is decimal digits after an
\* optional sign.
IsDecimal(word) == Len(word) > 0 /\ \A i \in 1..Len(word) : word[i] \in DOMAIN Digit
RaisesValueError(word) ==
    IF Len(word) > 0 /\ word[1] \in {"+", "-"} THEN ~IsDecimal(Tail(word))
    ELSE ~IsDecimal(word)
RECURSIVE DecimalValue(_)
DecimalValue(word) ==
    IF word = <<>> THEN 0
    ELSE 10 * DecimalValue(SubSeq(word, 1, Len(word) - 1)) + Digit[Last(word)]
IntOf(word) ==
    IF word[1] = "-" THEN 0 - DecimalValue(Tail(word))
    ELSE IF word[1] = "+" THEN DecimalValue(Tail(word))
    ELSE DecimalValue(word)

\* syscall_numbers[name] = number: a name already there keeps its place.
RECURSIVE SetNumber(_, _, _)
SetNumber(numbers, name, number) ==
    IF numbers = <<>> THEN <<NR(name, number)>>
    ELSE IF Head(numbers).name = name THEN <<NR(name, number)>> \o Tail(numbers)
    ELSE <<Head(numbers)>> \o SetNumber(Tail(numbers), name, number)

\* A line with its tests in the order of the code (lines 83-108).
TakesLine(parts) ==
    /\ \E i \in 1..Len(parts) : InSeq(NR_PATTERN, parts[i])
    /\ Len(parts) >= 3
    /\ parts[1] = <<"#define">>
    /\ Len(parts[2]) > 0 /\ parts[2][1] = NR_PATTERN
    /\ ~RaisesValueError(parts[3])

RECURSIVE NumbersOf(_, _)
NumbersOf(numbers, lines) ==
    IF lines = <<>> THEN numbers
    ELSE NumbersOf(IF TakesLine(Head(lines))
                   THEN SetNumber(numbers, Tail(Head(lines)[2]), IntOf(Head(lines)[3]))
                   ELSE numbers,
                   Tail(lines))

extract_syscall_numbers(lines) == NumbersOf(<<>>, lines)

\* What `gcc -E -dM -include sys/syscall.h` can give: None when gcc fails,
\* the empty text, and three sets of macro lines.
Define(name, number) == <<<<"#define">>, <<NR_PATTERN>> \o name, number>>
SyscallHeaderTexts ==
    {None,
     Some(<<>>),
     Some(<<Define(<<"f">>, <<"0">>), Define(<<"g">>, <<"1">>), Define(<<"w">>, <<"2">>),
            Define(<<"k">>, <<"3">>),
            <<<<"#define">>, <<"SYS_", "f">>, <<NR_PATTERN, "f">>>>,
            <<<<"#define">>, <<NR_PATTERN, "x">>, <<"(", NR_PATTERN, "f">>, <<"+">>,
              <<"1", ")">>>>>>),
     Some(<<<<<<"#define">>, <<"__GNUC__">>, <<"4">>>>,
            Define(<<"g">>, <<"0">>), Define(<<"f">>, <<"1">>),
            <<<<"#define">>, <<NR_PATTERN, "y">>>>,
            Define(<<"h">>, <<"1", "2">>)>>),
     Some(<<Define(<<"f">>, <<"0">>), Define(<<"g">>, <<"1">>), Define(<<"h">>, <<"1">>)>>)}

SyscallNames == {syscall_numbers[i].name : i \in 1..Len(syscall_numbers)}

\* The headers found, in the order in which the loop takes them.
HeaderOrders ==
    {order \in UNION {[1..n -> HeaderNames] : n \in 0..Cardinality(HeaderNames)} :
        \A i, j \in 1..Len(order) : i /= j => order[i] /= order[j]}

\* main has called extract_syscalls, which has run expand_macros on
\* sys/syscall.h (lines 121-123).
Init ==
    /\ IdleStore /\ IdleGen /\ IdleArg /\ IdleList /\ IdleStruct
    /\ syscall_h \in SyscallHeaderTexts
    /\ syscall_numbers = <<>>
    /\ syscalls = EmptyStore
    /\ found_headers = <<>>
    /\ processed = <<>>
    /\ functions_by_name = EmptyStore
    /\ typedefs_store = EmptyStore
    /\ typedefs_needed = {}
    /\ ctx_type_store = EmptyStore
    /\ prev_ctx_store = EmptyStore
    /\ types_to_add = None
    /\ output = None
    /\ exit_status = None
    /\ pc = "start"

\* extract_syscalls up to the header loop (lines 125-147).  Without the
\* macros it raises RuntimeError, which main answers with sys.exit(1)
\* (extract_syscalls.py lines 39-41).
ExtractSyscallNumbers ==
    /\ pc = "start"
    /\ IF ~Truthy(syscall_h)
       THEN /\ exit_status' = Some(1)
            /\ pc' = "exited"
            /\ UNCHANGED <<syscall_numbers, syscalls, found_headers>>
       ELSE /\ syscall_numbers' = extract_syscall_numbers(Get(syscall_h))
            /\ syscalls' = InitialSyscalls(syscall_numbers')
            /\ found_headers' \in HeaderOrders
            /\ pc' = "headers"
            /\ UNCHANGED exit_status
    /\ UNCHANGED <<syscall_h, processed, ctx_type_store, prev_ctx_store,
                   functions_by_name, typedefs_store, typedefs_needed, types_to_add,
                   output, storeVars, genVars, argVars, listVars, structVars>>

\* Lines 160-162.
RECURSIVE StoreFunctions(_, _, _, _)
StoreFunctions(by_name, funcs, header, names) ==
    IF funcs = <<>> THEN by_name
    ELSE StoreFunctions(IF Head(funcs).name \in names
                        THEN SetItem(by_name, Head(funcs).name,
                                     [func |-> Head(funcs), header |-> header])
                        ELSE by_name,
                        Tail(funcs), header, names)

\* Lines 165-166.
RECURSIVE StoreTypedefs(_, _)
StoreTypedefs(store, typedefs) ==
    IF typedefs = <<>> THEN store
    ELSE StoreTypedefs(SetItem(store, Head(typedefs).name, Head(typedefs)),
                       Tail(typedefs))

\* How a header can fare: it is expanded and parsed, its expansion gives
\* nothing (expand returns None or ''), or parsing it raises inside
\* extract_extern_functions, which then returns [], [], [] (lines 311-313).
HeaderOutcomes == {"extracted", "not expanded", "not parsed"}

\* One turn of the header loop (lines 149-168).
ProcessHeader(outcome) ==
    /\ pc = "headers"
    /\ found_headers /= <<>>
    /\ found_headers' = Tail(found_headers)
    /\ processed' = Append(processed, [header |-> Head(found_headers),
                                       outcome |-> outcome])
    /\ IF outcome = "extracted"
       THEN LET got == ExtractExternFunctions(Head(found_headers))
            IN  /\ functions_by_name' =
                       StoreFunctions(functions_by_name, got.extern_functions,
                                      Head(found_headers), SyscallNames)
                /\ typedefs_store' = StoreTypedefs(typedefs_store, got.typedefs)
                /\ prev_ctx_store' = ctx_type_store
                /\ ctx_type_store' = Update(ctx_type_store, got.type_store)
       ELSE IF outcome = "not parsed"
       THEN /\ prev_ctx_store' = ctx_type_store
            /\ ctx_type_store' = Update(ctx_type_store, EmptyStore)
            /\ UNCHANGED <<functions_by_name, typedefs_store>>
       ELSE UNCHANGED <<functions_by_name, typedefs_store, prev_ctx_store,
                        ctx_type_store>>
    /\ UNCHANGED <<syscall_numbers, typedefs_needed, syscalls, types_to_add, pc,
                   syscall_h, output, exit_status, storeVars, genVars, argVars, listVars, structVars>>

\* Lines 182-188: the typedefs a matched function needs.
TypedefsOf(func, store) ==
    {store[func.arguments[i].type] :
        i \in {k \in 1..Len(func.arguments) : func.arguments[k].type \in DOMAIN store}}
    \cup (IF func.return_type \in DOMAIN store THEN {store[func.return_type]} ELSE {})

\* Lines 172-188, for the names of the table in dict order.
RECURSIVE Matched(_, _, _, _)
Matched(table, needed, numbers, by_name) ==
    IF numbers = <<>> THEN [syscalls |-> table, typedefs_needed |-> needed]
    ELSE LET name == Head(numbers).name
             number == Head(numbers).number
         IN  IF name \in DOMAIN by_name
             THEN Matched([table EXCEPT
                              ![number].function = Some(by_name[name].func),
                              ![number].header_name = by_name[name].header],
                          needed \cup TypedefsOf(by_name[name].func, typedefs_store),
                          Tail(numbers), by_name)
             ELSE Matched(table, needed, Tail(numbers), by_name)

\* The rest of extract_syscalls after the header loop (lines 170-204).
MatchFunctions ==
    /\ pc = "headers"
    /\ found_headers = <<>>
    /\ LET m == Matched(syscalls, {}, syscall_numbers, functions_by_name)
       IN  /\ syscalls' = m.syscalls
           /\ typedefs_needed' = m.typedefs_needed
    /\ pc' = "matched"
    /\ UNCHANGED <<syscall_numbers, found_headers, ctx_type_store, prev_ctx_store,
                   functions_by_name, typedefs_store, types_to_add,
                   syscall_h, processed, output, exit_status,
                   storeVars, genVars, argVars, listVars, structVars>>

-----------------------------------------------------------------------------
(* output_formatter.get_types_to_add                                       *)

\* The OrderedDict types_to_add is a sequence of (key, value); assigning to
\* a key that is present keeps the key's position.
Entry(key, value) == [key |-> key, value |-> value]
Keys(od) == {od[i].key : i \in 1..Len(od)}
Lookup(od, key) == od[CHOOSE i \in 1..Len(od) : od[i].key = key].value
Assign(od, key, value) ==
    IF key \in Keys(od)
    THEN [i \in 1..Len(od) |-> IF od[i].key = key THEN Entry(key, value) ELSE od[i]]
    ELSE Append(od, Entry(key, value))

\* check_and_add (lines 158-182); types_added is the key set of types_to_add.
CheckAndAdd(od, flat_type) ==
    LET flat_type_name == get_unqualified_type_name(flat_type)
    IN  IF ~(flat_type.is_elaborated \/ flat_type.storage_class = Some("TYPEDEF"))
        THEN od
        ELSE IF flat_type_name \in Keys(od)
                /\ LET type_added == Lookup(od, flat_type_name)
                   IN  \/ ~type_added.is_structural
                       \/ type_added.struct_anonymous
                       \/ /\ type_added.struct_type = Some("ENUM")
                          /\ Truthy(type_added.enum_constants)
                       \/ Truthy(type_added.struct_fields)
        THEN od
        ELSE Assign(od, flat_type_name, flat_type)

Reversed(s) == [i \in 1..Len(s) |-> s[Len(s) + 1 - i]]

RECURSIVE CheckAndAddEach(_, _)
CheckAndAddEach(od, flat_types) ==
    IF flat_types = <<>> THEN od
    ELSE CheckAndAddEach(CheckAndAdd(od, Head(flat_types)), Tail(flat_types))

\* for flat_type in reversed(list(flattened(type_store[name]))): ...
AddTypesOf(od, store, name) ==
    CheckAndAddEach(od, Reversed(Flattened(store[name])))

RECURSIVE AddArgumentTypes(_, _, _)
AddArgumentTypes(od, store, arguments) ==
    IF arguments = <<>> THEN od
    ELSE AddArgumentTypes(AddTypesOf(od, store, Head(arguments).type), store,
                          Tail(arguments))

\* Lines 184-192, for the syscall numbers `numbers` in ascending order.
RECURSIVE AddSyscallTypes(_, _, _, _)
AddSyscallTypes(od, table, store, numbers) ==
    IF numbers = {} THEN od
    ELSE LET number == CHOOSE n \in numbers : \A m \in numbers : n <= m
             syscall == table[number]
         IN  AddSyscallTypes(
                 IF IsNone(syscall.function) THEN od
                 ELSE AddArgumentTypes(
                          AddTypesOf(od, store, Get(syscall.function).return_type),
                          store, Get(syscall.function).arguments),
                 table, store, numbers \ {number})

\* get_types_to_add(syscalls_ctx): types_to_add.values()
Values(od) == [i \in 1..Len(od) |-> od[i].value]
TypesToAdd(table, store) == Values(AddSyscallTypes(<<>>, table, store, DOMAIN table))

\* format_output_header asks for the list (line 274).
GetTypesToAdd ==
    /\ pc = "matched"
    /\ types_to_add' = Some(TypesToAdd(syscalls, ctx_type_store))
    /\ pc' = "listed"
    /\ UNCHANGED <<syscall_numbers, found_headers, ctx_type_store, prev_ctx_store,
                   functions_by_name, typedefs_store, typedefs_needed, syscalls,
                   syscall_h, processed, output, exit_status,
                   storeVars, genVars, argVars, listVars, structVars>>

-----------------------------------------------------------------------------
(* Properties of a run                                                     *)

\* C4: merging the type store of a header into the run-wide store never
\* changes the entry of a name from a full definition to a forward
\* declaration.  (Stated as the claim has it; it fails when the header that
\* only declares the struct is merged after the header that defines it.)
C4_MergeNeverDowngrades ==
    \A N \in DOMAIN prev_ctx_store :
        FullDefinition(prev_ctx_store[N]) => ~ForwardDeclaration(ctx_type_store[N])

\* A node that check_and_add takes into the list.
Eligible(n) == n.is_elaborated \/ n.storage_class = Some("TYPEDEF")

\* C8: in the list of get_types_to_add every eligible node reachable from an
\* entry has an entry under its unqualified name at the entry's position or
\* before it.  (Stated as the claim has it; it fails when a forward
\* declaration added first is replaced where it stands by the full
\* definition, whose field types were appended after it.)
C8_DependenciesComeFirst ==
    \A L \in Range(types_to_add) :
        \A i \in 1..Len(L) :
            \A D \in SubNodes(L[i]) :
                Eligible(D) =>
                    \E j \in 1..i :
                        get_unqualified_type_name(L[j]) = get_unqualified_type_name(D)

\* The macro lines of the form `#define __NR_<name> <integer>`.
MacroLines ==
    {l \in Range(ListOf(syscall_h)) :
        /\ Len(l) = 3
        /\ l[1] = <<"#define">>
        /\ Len(l[2]) > 1 /\ l[2][1] = NR_PATTERN
        /\ IsDecimal(l[3])}

\* The headers that were expanded and parsed, and the names of the extern
\* functions they declare.
Extracted == {p.header : p \in {q \in Range(processed) : q.outcome = "extracted"}}
DeclaredIn(headers) ==
    {c.spelling : c \in {d \in UNION {Range(HeaderCursors[h]) : h \in headers} :
                            d.kind = "FUNCTION_DECL" /\ d.linkage /= 0}}
DeclaredNames == DeclaredIn(Extracted)

\* extract_syscalls has returned.
Returned_extract_syscalls == pc \in {"matched", "listed", "written", "raised"}

\* C11: the table has one entry per number of a macro line, keyed by the
\* number and carrying the name of such a line, and an entry carries a
\* function exactly if a processed header declares an extern function of the
\* entry's name.  (Stated as the claim has it; it fails when two names share
\* a number: the entry carries the later name and the function of the earlier.)
C11_OneEntryPerNumberFunctionIffDeclared ==
    Returned_extract_syscalls =>
        /\ DOMAIN syscalls = {DecimalValue(l[3]) : l \in MacroLines}
        /\ \A n \in DOMAIN syscalls :
               /\ syscalls[n].number = n
               /\ \E l \in MacroLines :
                      DecimalValue(l[3]) = n /\ syscalls[n].name = Tail(l[2])
               /\ ~IsNone(syscalls[n].function) <=> syscalls[n].name \in DeclaredNames

\* C27: in the table returned by extract_syscalls every entry that carries a
\* function carries the function of its own name, also when two names of
\* the macro lines share a number.
C27_FunctionOfTheEntrysName ==
    Returned_extract_syscalls =>
        \A n \in DOMAIN syscalls :
            ~IsNone(syscalls[n].function)
                => Get(syscalls[n].function).name = syscalls[n].name

\* The type names of a function: of its return type and of its arguments.
TypeNamesOf(function) ==
    {function.return_type}
    \cup {function.arguments[i].type : i \in 1..Len(function.arguments)}

\* C28: in the context extract_syscalls returns, the name of the return
\* type and the name of every argument type of every matched function is a
\* key of type_store, so the lookups of get_types_to_add and of
\* format_output_header find their key.
C28_TypeNamesAreKeys ==
    Returned_extract_syscalls =>
        \A n \in DOMAIN syscalls :
            ~IsNone(syscalls[n].function)
                => TypeNamesOf(Get(syscalls[n].function)) \subseteq DOMAIN ctx_type_store
\* extract_syscalls has returned a table with two matched functions that
\* come from two headers, and the names of their types are keys.
C28_Witness ==
    /\ Returned_extract_syscalls
    /\ \E n, m \in DOMAIN syscalls :
           /\ ~IsNone(syscalls[n].function) /\ ~IsNone(syscalls[m].function)
           /\ syscalls[n].header_name /= syscalls[m].header_name
           /\ Get(syscalls[n].function).arguments /= <<>>
           /\ TypeNamesOf(Get(syscalls[n].function)) \subseteq DOMAIN ctx_type_store
           /\ TypeNamesOf(Get(syscalls[m].function)) \subseteq DOMAIN ctx_type_store

\* Every key of the store is the name of its node.
KeyedByName(store) == \A k \in DOMAIN store : store[k].name = k

\* C29: after any sequence of add_to_type_store calls and of merges of the
\* stores of the headers, every key of the type store maps to a node whose
\* name is the key.
C29_KeysAreTheNodesNames ==
    KeyedByName(type_store) /\ KeyedByName(ctx_type_store)
\* Two headers have been merged, the second has replaced an entry of the
\* first, and a typedef name has got the node of its struct.
C29_Witness ==
    /\ Cardinality(Extracted) >= 2
    /\ \E k \in DOMAIN prev_ctx_store :
           k \in DOMAIN ctx_type_store /\ ctx_type_store[k] /= prev_ctx_store[k]
    /\ \E k \in DOMAIN ctx_type_store :
           ctx_type_store[k].is_structural /\ ctx_type_store[k].base_type /= Some(k)

-----------------------------------------------------------------------------
(* model.TypeInfo.to_argument_name                                         *)

\* str(n) of an integer: its decimal digits, a minus sign before them.
DigitChars == <<"0", "1", "2", "3", "4", "5", "6", "7", "8", "9">>
RECURSIVE StrNat(_)
StrNat(n) ==
    IF n < 10 THEN <<DigitChars[n + 1]>>
    ELSE StrNat(n \div 10) \o <<DigitChars[(n % 10) + 1]>>
Str(n) == IF n < 0 THEN <<"-">> \o StrNat(0 - n) ELSE StrNat(n)

\* ", ".join(names)
RECURSIVE JoinComma(_)
JoinComma(names) ==
    IF names = <<>> THEN <<>>
    ELSE IF Len(names) = 1 THEN names[1]
    ELSE names[1] \o <<",", SP>> \o JoinComma(Tail(names))

NamesOf(type_infos) == [i \in 1..Len(type_infos) |-> type_infos[i].name]

\* The array case written the other way round, the brackets after the
\* element type.
ArrayArgumentBracketsFirst(self, argument_name) ==
    Get(self.array_element).name
    \o (IF ~IsNone(self.array_size)
        THEN <<"[">> \o Str(Get(self.array_size)) \o <<"]">>
        ELSE <<"[", "]">>)
    \o <<SP>> \o argument_name
\* Lines 92-98.
ArrayArgument(self, argument_name) ==
    Get(self.array_element).name \o <<SP>> \o argument_name
    \o (IF ~IsNone(self.array_size)
        THEN <<"[">> \o Str(Get(self.array_size)) \o <<"]">>
        ELSE <<"[", "]">>)

\* The function case with the parameter names in reverse.
FunctionArgumentReversed(self, argument_name) ==
    Get(self.return_type).name \o <<SP, "(", "*">> \o argument_name \o <<")", "(">>
    \o JoinComma(Reversed(NamesOf(Get(self.arguments)))) \o <<")">>
\* Lines 99-103.
FunctionArgument(self, argument_name) ==
    Get(self.return_type).name \o <<SP, "(", "*">> \o argument_name \o <<")", "(">>
    \o JoinComma(NamesOf(Get(self.arguments))) \o <<")">>

\* The plain case without the blank.
PlainArgumentNoBlank(self, argument_name) == self.name \o argument_name
\* Line 105: the name, a blank, the argument name.
PlainArgument(self, argument_name) == self.name \o <<SP>> \o argument_name

\* The pointer case with the type rebuilt from the pointee.
PointerArgumentFromPointee(self, argument_name) ==
    Get(self.pointer_to).name \o <<"*", SP>> \o argument_name
\* Line 91: the node's own name, a blank, the argument name.
PointerArgument(self, argument_name) == self.name \o <<SP>> \o argument_name

to_argument_name(self, argument_name) ==
    IF is_pointer(self) THEN PointerArgument(self, argument_name)
    ELSE IF self.is_array THEN ArrayArgument(self, argument_name)
    ELSE IF self.is_function THEN FunctionArgument(self, argument_name)
    ELSE PlainArgument(self, argument_name)

\* The nodes that tests/test_model.py builds by hand.
TestInt == TypeInfo(<<"int">>)
TestChar == TypeInfo(<<"char">>)
TestVoid == TypeInfo(<<"void">>)
TestIntPtr == [TypeInfo(<<"int", "*">>) EXCEPT !.pointer_to = Some(TestInt)]
TestCharPtr == [TypeInfo(<<"char", "*">>) EXCEPT !.pointer_to = Some(TestChar)]
TestCharPtrPtr ==
    [TypeInfo(<<"char", "*", "*">>) EXCEPT !.pointer_to = Some(TestCharPtr)]
TestIntArray ==
    [TypeInfo(<<"int", "[", "]">>) EXCEPT !.is_array = TRUE,
                                          !.array_element = Some(TestInt)]
TestArrayOfPtrs ==
    [TypeInfo(<<"char", "*", "[", "]">>) EXCEPT !.is_array = TRUE,
                                                !.array_element = Some(TestCharPtr)]
TestFuncPtr ==
    [TypeInfo(<<"void", SP, "(", "*", ")", "(", "int", ")">>)
        EXCEPT !.is_function = TRUE, !.return_type = Some(TestVoid),
               !.arguments = Some(<<TestInt>>)]
TestComplexFunc ==
    [TypeInfo(<<"int", SP, "(", "*", ")", "(", "char", "*", ",", SP, "int", ")">>)
        EXCEPT !.is_function = TRUE, !.return_type = Some(TestInt),
               !.arguments = Some(<<TestCharPtr, TestInt>>)]
TestPtrToArray ==
    [TypeInfo(<<"int", SP, "(", "*", ")", "[">> \o Str(10) \o <<"]">>)
        EXCEPT !.pointer_to = Some(TestIntArray)]
TestNoArgFuncPtr ==
    [TypeInfo(<<"void", SP, "(", "*", ")", "(", ")">>)
        EXCEPT !.is_function = TRUE, !.return_type = Some(TestVoid),
               !.arguments = Some(<<>>)]
TestArrayOfFuncPtrs ==
    [TypeInfo(<<"void", SP, "(", "*", "[", "]", ")", "(", ")">>)
        EXCEPT !.is_array = TRUE, !.array_element = Some(TestNoArgFuncPtr)]
TestNodes ==
    {TestInt, TestChar, TestIntPtr, TestCharPtrPtr, TestIntArray,
     TestArrayOfPtrs, TestFuncPtr, TestComplexFunc, TestPtrToArray,
     TestNoArgFuncPtr, TestArrayOfFuncPtrs}

\* The clang types whose nodes, with everything below them, are given to
\* to_argument_name: builtins, pointers, arrays, a pointer to a function,
\* records, an enum and a typedef.
ArgumentCursorTypes == {1, 2, 3, 4, 5, 6, 12, 13, 32, 41, 57, 58, 61, 73}
ExtractedNodes ==
    UNION {SubNodes(ExtractTopLevel(t).info) : t \in ArgumentCursorTypes}

\* Nodes built by hand, as a test builds them, with a qualifier list: the
\* qualifiers at the start and at the end of the name, in the order of the
\* code and in another order, and the list itself in any order.
Qualified(name, qualifiers) == [TypeInfo(name) EXCEPT !.qualifiers = Some(qualifiers)]
QualifiedPointer(name, qualifiers) ==
    [Qualified(name, qualifiers) EXCEPT !.pointer_to = Some(TestInt)]
QualifiedNodes ==
    {Qualified(<<"int">>, <<>>),
     Qualified(<<"int", SP, "const">>, <<"CONST">>),
     Qualified(<<"const", SP, "volatile", SP, "int">>, <<"VOLATILE", "CONST">>),
     Qualified(<<"volatile", SP, "const", SP, "int">>, <<"CONST", "VOLATILE">>),
     Qualified(<<"const", SP, "volatile", SP, "int">>, <<"CONST">>),
     QualifiedPointer(<<"int", SP, "*", "const">>, <<"CONST">>),
     QualifiedPointer(<<"int", SP, "*", "const", SP, "restrict">>,
                      <<"RESTRICT", "CONST">>),
     QualifiedPointer(<<"const", SP, "int", SP, "*">>, <<"CONST">>),
     QualifiedPointer(<<"int", SP, "*">>, <<>>)}

ArgumentNodes == ExtractedNodes \cup TestNodes \cup QualifiedNodes
ArgumentNames == {<<"x">>, <<"arr">>, <<"matrix">>}

InitArgument ==
    /\ IdleStore /\ IdleGen /\ IdleRun /\ IdleList /\ IdleStruct
    /\ arg_node \in {Some(n) : n \in ArgumentNodes}
    /\ arg_name \in ArgumentNames
    /\ arg_out = None
    /\ arg_unq = None

\* node.to_argument_name(argument_name)
ToArgumentName ==
    /\ IsNone(arg_out)
    /\ arg_out' = Some(to_argument_name(Get(arg_node), arg_name))
    /\ UNCHANGED <<arg_node, arg_name, arg_unq, storeVars, genVars, runVars, listVars, structVars>>

\* get_unqualified_type_name(node)
GetUnqualifiedTypeName ==
    /\ IsNone(arg_unq)
    /\ arg_unq' = Some(get_unqualified_type_name(Get(arg_node)))
    /\ UNCHANGED <<arg_node, arg_name, arg_out, storeVars, genVars, runVars, listVars, structVars>>

NextArgument == ToArgumentName \/ GetUnqualifiedTypeName

SpecArgument == InitArgument /\ [][NextArgument]_vars

-----------------------------------------------------------------------------
(* Properties of to_argument_name                                          *)

Rendered == ~IsNone(arg_out)
Node == Get(arg_node)
Primitive(n) == ~is_pointer(n) /\ ~n.is_array /\ ~n.is_function

\* C15: for a node without pointee that is neither an array nor a function,
\* to_argument_name(x) is the node's name, one blank, x.
C15_PrimitiveIsNameBlankArgument ==
    (Rendered /\ Primitive(Node))
        => Get(arg_out) = Node.name \o <<" ">> \o arg_name
\* A structural node, which is primitive in this sense, has been rendered.
C15_Witness ==
    /\ Rendered /\ Primitive(Node) /\ Node.is_structural
    /\ Get(arg_out) = <<"struct", " ", "W", " ">> \o arg_name

C18_FunctionPointerForm ==
    (Rendered /\ ~is_pointer(Node) /\ ~Node.is_array /\ Node.is_function)
        => Get(arg_out) =
              Get(Node.return_type).name \o <<" ", "(", "*">> \o arg_name
              \o <<")", "(">> \o JoinComma(NamesOf(Get(Node.arguments)))
              \o <<")">>
\* The test's two-parameter function pointer has been rendered as
\* "int (*x)(char*, int)".
C18_Witness ==
    /\ Rendered /\ Node.is_function /\ Len(Get(Node.arguments)) = 2
    /\ Get(arg_out) = <<"int", " ", "(", "*">> \o arg_name
                      \o <<")", "(", "char", "*", ",", " ", "int", ")">>

\* C19: for an array node of unknown size with element E,
\* to_argument_name(x) is E's name, [], one blank, x.
C19_UnsizedArrayBracketsPrecedeArgument ==
    (Rendered /\ ~is_pointer(Node) /\ Node.is_array /\ IsNone(Node.array_size))
        => Get(arg_out) =
              Get(Node.array_element).name \o <<"[", "]", " ">> \o arg_name

\* C20: for a pointer node whose pointee is an array of unknown size with
\* element E, to_argument_name(x) is E's name, " (*)[] ", x.
C20_PointerToUnsizedArrayForm ==
    (/\ Rendered /\ is_pointer(Node)
     /\ Get(Node.pointer_to).is_array
     /\ IsNone(Get(Node.pointer_to).array_size))
        => Get(arg_out) =
              Get(Get(Node.pointer_to).array_element).name
              \o <<" ", "(", "*", ")", "[", "]", " ">> \o arg_name

-----------------------------------------------------------------------------
(* output_formatter: output_c_struct, output_c_enum, format_output_header  *)

C_INDENT == <<SP, SP, SP, SP>>

\* struct_type.name.lower()
Lower(struct_type) ==
    IF struct_type = "STRUCT" THEN <<"struct">>
    ELSE IF struct_type = "UNION" THEN <<"union">>
    ELSE <<"enum">>

\* An Optional string inside an f-string: None prints as the word None.
FormatStr(opt) == IF IsNone(opt) THEN <<"None">> ELSE Get(opt)
\* An Optional int inside an f-string.
FormatInt(opt) == IF IsNone(opt) THEN <<"None">> ELSE Str(Get(opt))

\* line.strip(';')
RECURSIVE LStripSemicolon(_), RStripSemicolon(_)
LStripSemicolon(line) ==
    IF line /= <<>> /\ Head(line) = ";" THEN LStripSemicolon(Tail(line)) ELSE line
RStripSemicolon(line) ==
    IF line /= <<>> /\ Last(line) = ";"
    THEN RStripSemicolon(SubSeq(line, 1, Len(line) - 1)) ELSE line
StripSemicolon(line) == LStripSemicolon(RStripSemicolon(line))

\* The lines a call has built, or the TypeError of iterating over None.
Lines(lines) == [lines |-> lines, ok |-> TRUE]
TypeError == [lines |-> <<>>, ok |-> FALSE]

\* new_lines[-1] = ... (line 224): the last line replaced.
ReplaceLast(lines, line) == SubSeq(lines, 1, Len(lines) - 1) \o <<line>>
\* Lines 222-225: the block of an anonymous aggregate closes with the
\* field's name.
CloseInline(new, field, no_indent) ==
    IF ~new.ok THEN TypeError
    ELSE IF field.type_info.struct_anonymous
    THEN Lines(ReplaceLast(new.lines,
                           no_indent \o C_INDENT \o <<"}", SP>> \o field.name \o <<";">>))
    ELSE new

\* Line 209-212: the opening line of a body.
OpeningLine(struct_info, no_indent) ==
    IF struct_info.struct_anonymous
    THEN no_indent \o Lower(Get(struct_info.struct_type)) \o <<SP, "{">>
    ELSE no_indent \o FormatStr(struct_info.base_type) \o <<SP, "{">>

\* Lines 215-219: an array field.
ArrayFieldLine(field, indent) ==
    indent \o get_unqualified_type_name(Get(field.type_info.array_element))
    \o <<SP>> \o field.name
    \o <<"[">> \o FormatInt(field.type_info.array_size) \o <<"]", ";">>

\* Lines 226-231: a field that points to a function.
FunctionFieldLine(field, indent) ==
    indent \o Get(Get(field.type_info.pointer_to).return_type).name
    \o <<SP, "(", "*">> \o field.name \o <<")", "(">>
    \o JoinComma(NamesOf(Get(Get(field.type_info.pointer_to).arguments)))
    \o <<")", ";">>

\* Lines 232-233: any other field.
PlainFieldLine(field, indent) ==
    indent \o get_unqualified_type_name(field.type_info) \o <<SP>> \o field.name
    \o <<";">>

\* The lines of the fields after the first are appended to those of the first.
Extend(first, rest) ==
    IF first.ok /\ rest.ok THEN Lines(first.lines \o rest.lines) ELSE TypeError

\* output_c_struct(struct_info, indent, no_indent), lines 200-236.
RECURSIVE output_c_struct(_, _, _), FieldLines(_, _, _), OneFieldLines(_, _, _)
OneFieldLines(field, indent, no_indent) ==
    IF field.type_info.is_array THEN Lines(<<ArrayFieldLine(field, indent)>>)
    ELSE IF /\ field.type_info.is_structural
            /\ (~field.type_info.is_elaborated \/ field.type_info.struct_anonymous)
    THEN CloseInline(output_c_struct(field.type_info, indent \o C_INDENT,
                                     no_indent \o C_INDENT),
                     field, no_indent)
    ELSE IF /\ is_pointer(field.type_info)
            /\ Get(field.type_info.pointer_to).is_function
    THEN Lines(<<FunctionFieldLine(field, indent)>>)
    ELSE Lines(<<PlainFieldLine(field, indent)>>)
FieldLines(fields, indent, no_indent) ==
    IF fields = <<>> THEN Lines(<<>>)
    ELSE Extend(OneFieldLines(Head(fields), indent, no_indent),
                FieldLines(Tail(fields), indent, no_indent))
output_c_struct(struct_info, indent, no_indent) ==
    IF IsNone(struct_info.struct_fields) THEN TypeError
    ELSE Extend(Lines(<<OpeningLine(struct_info, no_indent)>>),
                Extend(FieldLines(Get(struct_info.struct_fields), indent, no_indent),
                       Lines(<<no_indent \o <<"}", ";">>>>)))

\* Lines 243-247: one line per constant.
ConstantLine(constant) ==
    IF IsNone(constant.value) THEN C_INDENT \o constant.name \o <<",">>
    ELSE C_INDENT \o constant.name \o <<SP, "=", SP>> \o Str(Get(constant.value))
         \o <<",">>

\* output_c_enum(enum_info), lines 239-251.
output_c_enum(enum_info) ==
    IF IsNone(enum_info.enum_constants) THEN TypeError
    ELSE Lines(<<<<"enum", SP>> \o FormatStr(enum_info.base_type) \o <<SP, "{">>>>
               \o [i \in 1..Len(Get(enum_info.enum_constants)) |->
                      ConstantLine(Get(enum_info.enum_constants)[i])]
               \o <<<<"}", ";">>>>)

\* model.TypeInfo.is_basic_type
is_basic_type(t) ==
    /\ ~t.is_array /\ ~t.is_function /\ ~t.is_structural
    /\ ~is_pointer(t) /\ ~t.is_typedef

\* The test of lines 283-285.
TypedefLineWanted(type_info) ==
    \/ is_basic_type(type_info)
    \/ is_pointer(type_info)
    \/ /\ type_info.is_typedef
       /\ \/ is_basic_type(Get(type_info.underlying_type))
          \/ is_pointer(Get(type_info.underlying_type))

\* Lines 299-304: the body wrapped as a typedef of the unqualified name.
Alias(new, struct_kind, unqualified_name) ==
    IF ~new.ok THEN TypeError
    ELSE Lines(<<<<"typedef", SP>>
                 \o (IF IsPrefix(struct_kind, Head(new.lines)) THEN <<>>
                     ELSE struct_kind \o <<SP>>)
                 \o Head(new.lines)>>
               \o SubSeq(new.lines, 2, Len(new.lines) - 1)
               \o <<StripSemicolon(Last(new.lines)) \o <<SP>> \o unqualified_name
                    \o <<";">>>>)

\* Lines 293-306: the lines of an aggregate that is not anonymous.
BodyLines(type_info, struct_kind, unqualified_name) ==
    IF ~IsPrefix(struct_kind, unqualified_name)
    THEN Alias(IF type_info.struct_type = Some("ENUM") THEN output_c_enum(type_info)
               ELSE output_c_struct(type_info, C_INDENT, <<>>),
               struct_kind, unqualified_name)
    ELSE output_c_struct(type_info, C_INDENT, <<>>)

\* The body put where the typedef lines go, in the order of the list.
AddBodyInLines(acc, body, unqualified_name) ==
    IF ~body.ok THEN [acc EXCEPT !.ok = FALSE]
    ELSE [acc EXCEPT !.lines = @ \o body.lines \o <<<<>>>>,
                     !.types_added = @ \cup {unqualified_name}]
\* Lines 305-308: the body joins struct_lines, a blank line after it.
AddBody(acc, body, unqualified_name) ==
    IF ~body.ok THEN [acc EXCEPT !.ok = FALSE]
    ELSE [acc EXCEPT !.struct_lines = @ \o body.lines \o <<<<>>>>,
                     !.types_added = @ \cup {unqualified_name}]

\* The anonymous test of line 291 left out.
SkipAnonymousNever(type_info) == FALSE
\* Line 291.
SkipAnonymous(type_info) == type_info.struct_anonymous

\* One round of the loop of lines 277-308.
AddType(acc, type_info, unqualified_name) ==
    IF ~acc.ok \/ unqualified_name \in acc.types_added THEN acc
    ELSE IF TypedefLineWanted(type_info)
    THEN [acc EXCEPT !.lines = Append(@, <<"typedef", SP>>
                                         \o FormatStr(type_info.base_type)
                                         \o <<SP>> \o unqualified_name \o <<";">>),
                     !.types_added = @ \cup {unqualified_name}]
    ELSE IF type_info.is_elaborated /\ type_info.is_structural
    THEN IF SkipAnonymous(type_info) THEN acc
         ELSE AddBody(acc,
                      BodyLines(type_info, Lower(Get(type_info.struct_type)),
                                unqualified_name),
                      unqualified_name)
    ELSE acc

RECURSIVE AddTypes(_, _)
AddTypes(acc, types) ==
    IF types = <<>> THEN acc
    ELSE AddTypes(AddType(acc, Head(types), get_unqualified_type_name(Head(types))),
                  Tail(types))

\* Lines 258-273.
Preamble ==
    << <<"/* Automatically generated syscall definitions */">>,
       <<"#ifndef _SYSCALL_NUMBERS_H">>,
       <<"#define _SYSCALL_NUMBERS_H">>,
       <<>>,
       <<"#ifdef __cplusplus">>,
       <<"extern \"C\" {">>,
       <<"#endif">>,
       <<>>,
       <<"#ifndef restrict">>,
       <<"#define restrict __restrict">>,
       <<"#endif">>,
       <<>>,
       <<"/* Type definitions */">> >>
PrototypesTitle == <<"/* Syscall function prototypes */">>
\* Lines 336-345.
Footer ==
    << <<>>, <<"#ifdef __cplusplus">>, <<"}">>, <<"#endif">>, <<>>,
       <<"#endif /* _SYSCALL_NUMBERS_H */">> >>

\* Lines 321-324: the arguments of a prototype; a type that is no key of the
\* store raises KeyError.
ArgsKnown(store, arguments) ==
    \A i \in 1..Len(arguments) : arguments[i].type \in DOMAIN store
ArgsStr(store, arguments) ==
    JoinComma([i \in 1..Len(arguments) |->
                  to_argument_name(store[arguments[i].type], arguments[i].name)])

\* Lines 325-327.
PrototypeLine(store, function) ==
    function.return_type \o <<SP>> \o function.name \o <<"(">>
    \o ArgsStr(store, function.arguments) \o <<")", ";">>
\* Lines 330-332.
CommentLine(syscall) ==
    <<"/* syscall ">> \o syscall.name \o <<" (#">> \o Str(syscall.number)
    \o <<") - no function definition available */">>

\* The loop of lines 319-332 over sorted(syscalls_ctx.syscalls.items()).
RECURSIVE Prototypes(_, _, _)
Prototypes(table, store, numbers) ==
    IF numbers = {} THEN Lines(<<>>)
    ELSE LET number == CHOOSE n \in numbers : \A m \in numbers : n <= m
         IN  Extend(IF IsNone(table[number].function)
                    THEN Lines(<<CommentLine(table[number])>>)
                    ELSE IF ArgsKnown(store, Get(table[number].function).arguments)
                    THEN Lines(<<PrototypeLine(store, Get(table[number].function))>>)
                    ELSE TypeError,
                    Prototypes(table, store, numbers \ {number}))

\* Lines 310-345 once the loop over the types has ended.
Assemble(typed, prototypes) ==
    IF ~typed.ok \/ ~prototypes.ok THEN TypeError
    ELSE Lines(typed.lines \o <<<<>>>> \o typed.struct_lines \o <<<<>>>>
               \o <<PrototypesTitle>> \o prototypes.lines \o Footer)

\* format_output_header for the list get_types_to_add has returned.
format_output_header(table, store, types) ==
    Assemble(AddTypes([lines |-> Preamble, struct_lines |-> <<>>,
                       types_added |-> {}, ok |-> TRUE], types),
             Prototypes(table, store, DOMAIN table))

\* "\n".join(lines)
RECURSIVE JoinLines(_)
JoinLines(lines) ==
    IF lines = <<>> THEN <<>>
    ELSE IF Len(lines) = 1 THEN lines[1]
    ELSE lines[1] \o <<"\n">> \o JoinLines(Tail(lines))

\* The end of main (extract_syscalls.py lines 58-72) for the header format:
\* the text is formatted and written, and main returns; an exception that
\* format_output_header raises is caught nowhere, so the interpreter ends
\* with status 1 and nothing is written.
Written(formatted) ==
    IF formatted.ok
    THEN /\ output' = Some(JoinLines(formatted.lines))
         /\ exit_status' = Some(0)
         /\ pc' = "written"
    ELSE /\ output' = None
         /\ exit_status' = Some(1)
         /\ pc' = "raised"

FormatOutputHeader ==
    /\ pc = "listed"
    /\ Written(format_output_header(syscalls, ctx_type_store, Get(types_to_add)))
    /\ UNCHANGED <<syscall_numbers, found_headers, ctx_type_store, prev_ctx_store,
                   functions_by_name, typedefs_store, typedefs_needed, syscalls,
                   types_to_add, syscall_h, processed, storeVars, genVars, argVars, listVars, structVars>>

Next ==
    \/ ExtractSyscallNumbers
    \/ \E outcome \in HeaderOutcomes : ProcessHeader(outcome)
    \/ MatchFunctions
    \/ GetTypesToAdd
    \/ FormatOutputHeader

Spec == Init /\ [][Next]_vars

-----------------------------------------------------------------------------
(* Properties of the output                                                *)

\* text.split("\n"): the pieces between the newlines.
Breaks(text) == {0, Len(text) + 1} \cup {i \in 1..Len(text) : text[i] = "\n"}
BreakAt(breaks, k) == CHOOSE b \in breaks : Cardinality({c \in breaks : c < b}) = k
SplitAt(text, breaks) ==
    [k \in 1..(Cardinality(breaks) - 1) |->
        SubSeq(text, BreakAt(breaks, k - 1) + 1, BreakAt(breaks, k) - 1)]
SplitLines(text) == SplitAt(text, Breaks(text))
OutputLines == SplitLines(Get(output))

\* main has gone through format_output_header: it has returned and the text
\* is written, or it has raised.
Formatted == pc \in {"written", "raised"}

\* The lines between the title of the prototype section and the blank line
\* that ends it.
TitleAt(lines) == CHOOSE i \in 1..Len(lines) : lines[i] = PrototypesTitle
SectionEnd(lines, from) ==
    CHOOSE j \in from..Len(lines) :
        lines[j] = <<>> /\ \A k \in from..(j - 1) : lines[k] /= <<>>
PrototypeSection(lines) ==
    SubSeq(lines, TitleAt(lines) + 1, SectionEnd(lines, TitleAt(lines) + 1) - 1)

\* The i-th syscall number in ascending order.
NumberAt(i) ==
    CHOOSE n \in DOMAIN syscalls : Cardinality({m \in DOMAIN syscalls : m < n}) = i - 1

\* The line of an entry: the comment naming the syscall and its number, or
\* a prototype return-type name(...);
LineOf(entry, line) ==
    IF IsNone(entry.function)
    THEN line = <<"/* syscall ">> \o entry.name \o <<" (#">> \o Str(entry.number)
                \o <<") - no function definition available */">>
    ELSE /\ IsPrefix(Get(entry.function).return_type \o <<" ">>
                     \o Get(entry.function).name \o <<"(">>, line)
         /\ IsSuffix(<<")", ";">>, line)

OneLinePerEntry(section) ==
    /\ Len(section) = Cardinality(DOMAIN syscalls)
    /\ \A i \in 1..Len(section) : LineOf(syscalls[NumberAt(i)], section[i])

\* C12: format_output_header emits, in the prototype section, exactly one
\* line per entry of the syscall table in ascending order of the numbers: a
\* prototype for an entry with a function, the comment naming the syscall
\* and its number for an entry without.
C12_OneLinePerEntryAscending ==
    Formatted => /\ ~IsNone(output)
                 /\ OneLinePerEntry(PrototypeSection(OutputLines))

\* The headers whose expansion or parsing has failed.
Failed == {p.header : p \in {q \in Range(processed) : q.outcome /= "extracted"}}

\* Without the syscall-number table the run ends with status 1, nothing
\* formatted and nothing written.
AbortedWithoutTable ==
    (pc /= "start" /\ ~Truthy(syscall_h))
        => /\ pc = "exited" /\ exit_status = Some(1)
           /\ IsNone(types_to_add) /\ IsNone(output)

\* Once the header loop has ended, every header found has been taken, the
\* failed ones have left nothing, and the others have been processed: their
\* extern functions that are syscall names are all there.
FailedHeadersSkipped ==
    (Truthy(syscall_h) /\ Returned_extract_syscalls)
        => /\ found_headers = <<>>
           /\ Failed \cap Extracted = {}
           /\ DOMAIN functions_by_name = DeclaredIn(Extracted) \cap SyscallNames
           /\ \A name \in DOMAIN functions_by_name :
                  /\ functions_by_name[name].header \in Extracted
                  /\ functions_by_name[name].func.name = name

\* A run in which a header has failed still ends with the text written and
\* status 0.
CompletesDespiteFailure ==
    (Truthy(syscall_h) /\ Failed /= {})
        => /\ pc /= "exited"
           /\ Formatted => (pc = "written" /\ ~IsNone(output) /\ exit_status = Some(0))

\* C13: if the syscall-number table cannot be obtained, extract_syscalls
\* raises, main exits with status 1 and nothing is formatted or written; if
\* the expansion or the parsing of a function header fails, that header
\* alone is skipped, every other header is still processed and the run
\* completes with output.
C13_OnlyMissingTableIsFatal ==
    AbortedWithoutTable /\ FailedHeadersSkipped /\ CompletesDespiteFailure

\* The anonymous aggregates among the candidates, and the named structs and
\* unions among them that have a field of such a type.
Candidates == Range(Get(types_to_add))
AnonymousCandidates == {t \in Candidates : t.struct_anonymous}
AnonymousFields(t) ==
    {f \in Range(ListOf(t.struct_fields)) :
        f.type_info.is_structural /\ f.type_info.struct_anonymous}

\* The opening line of the inline block of a field, at one level of
\* indentation, and its closing line.
InlineOpening(f) ==
    <<" ", " ", " ", " ">>
    \o (IF f.type_info.struct_type = Some("UNION") THEN <<"union">> ELSE <<"struct">>)
    \o <<" ", "{">>
InlineClosing(f) == <<" ", " ", " ", " ", "}", " ">> \o f.name \o <<";">>

\* Line i opens a declaration at the top level with the text `opening`.
TopLevelOpening(lines, i, opening) ==
    \/ lines[i] = opening \o <<" ", "{">>
    \/ lines[i] = <<"typedef", " ">> \o opening \o <<" ", "{">>

\* Between the line that opens the body of t and the line that closes it,
\* the field f has its block: opened inline, closed with `} <name>;`.
InlineIn(lines, t, f) ==
    \E i, j, k, l \in 1..Len(lines) :
        /\ i < j /\ j < k /\ k < l
        /\ TopLevelOpening(lines, i, Get(t.base_type))
        /\ lines[j] = InlineOpening(f)
        /\ lines[k] = InlineClosing(f)
        /\ lines[l] = <<"}", ";">>
        /\ \A m \in (i + 1)..(l - 1) : lines[m] /= <<"}", ";">>

\* C14: format_output_header emits no top-level declaration for a node that
\* is flagged anonymous, and output_c_struct renders a field whose type is an
\* anonymous aggregate inline in the parent's body, the block closing with
\* `} <field name>;`.
C14_AnonymousOnlyInline ==
    pc = "written" =>
        /\ \A t \in AnonymousCandidates :
               \A i \in 1..Len(OutputLines) :
                   /\ ~TopLevelOpening(OutputLines, i, t.name)
                   /\ ~TopLevelOpening(OutputLines, i, Lower(Get(t.struct_type)))
        /\ \A t \in Candidates :
               (/\ t.is_elaborated /\ t.is_structural /\ ~t.struct_anonymous
                /\ t.struct_type /= Some("ENUM"))
                   => \A f \in AnonymousFields(t) : InlineIn(OutputLines, t, f)
\* The text has been written for a candidate list that holds struct H and
\* the anonymous union of its field u, and the block of u is in the body.
C14_Witness ==
    /\ pc = "written"
    /\ AnonymousCandidates /= {}
    /\ \E t \in Candidates :
           /\ t.name = <<"struct", " ", "H">> /\ AnonymousFields(t) /= {}
           /\ \E i \in 1..(Len(OutputLines) - 4) :
                  /\ OutputLines[i] = <<"struct", " ", "H", " ", "{">>
                  /\ OutputLines[i + 1] = <<" ", " ", " ", " ", "union", " ", "{">>
                  /\ OutputLines[i + 4] =
                         <<" ", " ", " ", " ", "}", " ", "u", ";">>

\* The declaration of a candidate in the text: its typedef line, or the line
\* that opens its body.
TypedefLine(t) ==
    <<"typedef", " ">> \o FormatStr(t.base_type) \o <<" ">>
    \o get_unqualified_type_name(t) \o <<";">>
HasBody(t) ==
    /\ ~TypedefLineWanted(t)
    /\ t.is_elaborated /\ t.is_structural /\ ~t.struct_anonymous
DeclaredAt(lines, t, i) ==
    \/ TypedefLineWanted(t) /\ lines[i] = TypedefLine(t)
    \/ HasBody(t) /\ TopLevelOpening(lines, i, Get(t.base_type))
IsRendered(lines, t) == \E i \in 1..Len(lines) : DeclaredAt(lines, t, i)

\* The declarations of the candidates at the places a and b of the list
\* stand in the text in that order.
DeclaredInOrder(lines, list, a, b) ==
    \A i, j \in 1..Len(lines) :
        (DeclaredAt(lines, list[a], i) /\ DeclaredAt(lines, list[b], j)) => i < j

\* C24 as stated: whenever entry A precedes entry B in the list of
\* get_types_to_add and both are rendered, the declaration of A (typedef
\* line or aggregate body) precedes the declaration of B in the output.
C24_DeclarationsInListOrder ==
    pc = "written" =>
        \A a, b \in 1..Len(Get(types_to_add)) :
            a < b => DeclaredInOrder(OutputLines, Get(types_to_add), a, b)

\* C24, amended: format_output_header emits the typedef lines in the order
\* of the list, and after them the aggregate bodies in the order of the
\* list: of two rendered entries, a typedef line precedes a body, and two
\* declarations of the same form keep the order of the list.
C24_TypedefLinesThenBodiesInListOrder ==
    pc = "written" =>
        \A a, b \in 1..Len(Get(types_to_add)) :
            LET list == Get(types_to_add)
            IN  (\/ TypedefLineWanted(list[a]) /\ HasBody(list[b])
                 \/ /\ a < b
                    /\ TypedefLineWanted(list[a]) = TypedefLineWanted(list[b]))
                    => DeclaredInOrder(OutputLines, list, a, b)
\* The text has been written for a list in which a rendered body precedes
\* a rendered typedef line, and another rendered body.
C24_Witness ==
    /\ pc = "written"
    /\ \E a, b, c \in 1..Len(Get(types_to_add)) :
           LET list == Get(types_to_add)
           IN  /\ a < b /\ a < c
               /\ HasBody(list[a]) /\ IsRendered(OutputLines, list[a])
               /\ TypedefLineWanted(list[b]) /\ IsRendered(OutputLines, list[b])
               /\ HasBody(list[c]) /\ IsRendered(OutputLines, list[c])


\* The elaborated enums of the list that have a name.
EnumCandidates ==
    {t \in Candidates :
        /\ t.is_elaborated /\ t.is_structural /\ ~t.struct_anonymous
        /\ t.struct_type = Some("ENUM")}

\* The body of the enum t stands in the text: the opening line, one line for
\* each constant in the order of the declaration, `NAME = value,` or
\* `NAME,`, and the closing line.
EnumBodyIn(lines, t) ==
    LET constants == ListOf(t.enum_constants)
        n == Len(constants)
    IN  \E i \in 1..Len(lines) :
            /\ i + n + 1 <= Len(lines)
            /\ TopLevelOpening(lines, i, Get(t.base_type))
            /\ \A k \in 1..n :
                   lines[i + k] =
                       <<" ", " ", " ", " ">> \o constants[k].name
                       \o (IF IsNone(constants[k].value) THEN <<>>
                           ELSE <<" ", "=", " ">> \o Str(Get(constants[k].value)))
                       \o <<",">>
            /\ \/ lines[i + n + 1] = <<"}", ";">>
               \/ lines[i + n + 1] = <<"}", " ">> \o get_unqualified_type_name(t)
                                      \o <<";">>

\* C25: for every elaborated enum of the candidate list that is not
\* anonymous, format_output_header completes and the text has the body of the
\* enum, every constant in the order of the declaration, `NAME = value` when
\* the value is known and `NAME` alone when it is absent, whether the
\* unqualified name starts with `enum` or not.
C25_EnumBodiesRendered ==
    Formatted =>
        \A t \in EnumCandidates : pc = "written" /\ EnumBodyIn(OutputLines, t)

\* The named structs and unions of the list that get a body, and the line
\* that closes the body opened at line i.
StructCandidates ==
    {t \in Candidates : HasBody(t) /\ t.struct_type /= Some("ENUM")}
BodyEnd(lines, i) ==
    CHOOSE l \in (i + 1)..Len(lines) :
        /\ lines[l] /= <<>> /\ Head(lines[l]) = "}"
        /\ \A m \in (i + 1)..(l - 1) : lines[m] = <<>> \/ Head(lines[m]) /= "}"

\* The fields that take one line, and the line of such a field: an array
\* field is `<element> <field>[n];`, the brackets empty when the size is
\* absent; another field is `<type> <field>;`.
OneLineField(f) ==
    \/ f.type_info.is_array
    \/ /\ ~f.type_info.is_structural
       /\ ~(is_pointer(f.type_info) /\ Get(f.type_info.pointer_to).is_function)
FieldLineExpected(f) ==
    <<" ", " ", " ", " ">>
    \o (IF f.type_info.is_array
        THEN get_unqualified_type_name(Get(f.type_info.array_element))
             \o <<" ">> \o f.name \o <<"[">>
             \o (IF IsNone(f.type_info.array_size) THEN <<>>
                 ELSE Str(Get(f.type_info.array_size)))
             \o <<"]", ";">>
        ELSE get_unqualified_type_name(f.type_info) \o <<" ">> \o f.name \o <<";">>)

\* In the body opened at line i the one-line fields of t have their lines,
\* in the order of the declaration.
FieldsInOrder(lines, t, i) ==
    LET fields == ListOf(t.struct_fields)
        inside == (i + 1)..(BodyEnd(lines, i) - 1)
    IN  /\ \A a \in 1..Len(fields) :
               OneLineField(fields[a])
                   => \E p \in inside : lines[p] = FieldLineExpected(fields[a])
        /\ \A a, b \in 1..Len(fields) :
               (a < b /\ OneLineField(fields[a]) /\ OneLineField(fields[b]))
                   => \E p, q \in inside :
                          /\ p < q
                          /\ lines[p] = FieldLineExpected(fields[a])
                          /\ lines[q] = FieldLineExpected(fields[b])

\* C26: output_c_struct renders the fields in the order of the declaration;
\* an array field with element E is `<E> <field>[n];` when the size is known
\* and `<E> <field>[];` when it is absent.
C26_FieldsInDeclarationOrder ==
    pc = "written" =>
        \A t \in StructCandidates :
            \A i \in 1..Len(OutputLines) :
                TopLevelOpening(OutputLines, i, Get(t.base_type))
                    => FieldsInOrder(OutputLines, t, i)

-----------------------------------------------------------------------------
(* Properties of the qualifier stripping                                   *)

\* The qualifiers of a list in the order const, volatile, restrict, one
\* blank between two of them.
Has(qualifiers, q) == \E i \in 1..Len(qualifiers) : qualifiers[i] = q
RECURSIVE BlankJoined(_)
BlankJoined(words) ==
    IF words = <<>> THEN <<>>
    ELSE IF Len(words) = 1 THEN <<words[1]>>
    ELSE <<words[1], " ">> \o BlankJoined(Tail(words))
QualifierText(qualifiers) ==
    BlankJoined((IF Has(qualifiers, "CONST") THEN <<"const">> ELSE <<>>)
                \o (IF Has(qualifiers, "VOLATILE") THEN <<"volatile">> ELSE <<>>)
                \o (IF Has(qualifiers, "RESTRICT") THEN <<"restrict">> ELSE <<>>))

\* A text without the blanks at its two ends.
RECURSIVE Trimmed(_)
Trimmed(text) ==
    IF text = <<>> THEN text
    ELSE IF text[1] = " " THEN Trimmed(Tail(text))
    ELSE IF text[Len(text)] = " " THEN Trimmed(SubSeq(text, 1, Len(text) - 1))
    ELSE text

\* The name with the qualifier text taken from its end for a pointer and
\* from its start otherwise; the name itself where the text is not there.
PositionallyStripped(name, text, pointer) ==
    IF text = <<>> THEN name
    ELSE IF pointer
    THEN IF IsSuffix(text, name)
         THEN Trimmed(SubSeq(name, 1, Len(name) - Len(text))) ELSE name
    ELSE IF IsPrefix(text, name)
         THEN Trimmed(SubSeq(name, Len(text) + 1, Len(name))) ELSE name

\* A node as extract_type_info builds it from a type that is its own
\* canonical form: its base_type is the base name of its own spelling.
BuiltFromCanonical(n) ==
    /\ ~IsNone(n.qualifiers) /\ ~IsNone(n.base_type)
    /\ n \in ExtractedNodes
    /\ ~n.is_elaborated /\ ~n.is_typedef /\ ~n.is_array /\ ~n.is_function

\* C21: get_unqualified_type_name, and the base name the builder derives,
\* take the qualifier text (const, volatile, restrict in this order) from
\* the end of the name of a pointer node and from the start of any other
\* name; a node without qualifiers keeps its name, and so does a node whose
\* qualifier text is not at that end.
C21_QualifierStrippingIsPositional ==
    /\ ~IsNone(arg_unq) =>
          Get(arg_unq) =
              IF IsNone(Node.qualifiers) THEN Node.name
              ELSE PositionallyStripped(Node.name,
                                        QualifierText(Get(Node.qualifiers)),
                                        is_pointer(Node))
    /\ BuiltFromCanonical(Node) =>
          Get(Node.base_type) =
              PositionallyStripped(Node.name, QualifierText(Get(Node.qualifiers)),
                                   is_pointer(Node))
\* "const volatile int" with the list [VOLATILE, CONST] has given "int".
C21_Witness ==
    /\ arg_unq = Some(<<"int">>)
    /\ Node.name = <<"const", " ", "volatile", " ", "int">>
    /\ Node.qualifiers = Some(<<"VOLATILE", "CONST">>)

-----------------------------------------------------------------------------
(* Properties of the recursion guard                                       *)

\* A name-only node standing for an elaborated type.
ElaboratedSpellings == {ClangType[t].spelling : t \in {u \in DOMAIN ClangType :
                                                         ClangType[u].kind = "ELABORATED"}}
IsStub(n) == n = TypeInfo(n.name) /\ n.name \in ElaboratedSpellings

\* The stubs below n that stand for a type which is not among `open`, the
\* names of the elaborated nodes on the way down to them.
RECURSIVE StubsOffChain(_, _)
StubsOffChain(n, open) ==
    IF IsStub(n) THEN (IF n.name \in open THEN {} ELSE {n})
    ELSE UNION {StubsOffChain(m, IF n.is_elaborated THEN open \cup {n.name} ELSE open) :
                   m \in Range(n.pointer_to) \cup Range(n.array_element)
                         \cup Range(n.return_type) \cup Range(ListOf(n.arguments))
                         \cup {f.type_info : f \in Range(ListOf(n.struct_fields))}}

\* C22: the processing list holds the entries of the calls in progress only,
\* so none is left when the top-level call has returned, and a name-only
\* stub stands for an elaborated type only below a node of that type; a
\* second reference beside the first is expanded in full.
C22_StackHoldsTheCallChainOnly ==
    (~IsNone(built) /\ Get(built).ok)
        => /\ Get(built).processing_types = <<>>
           /\ StubsOffChain(Get(built).info, {}) = {}

-----------------------------------------------------------------------------
(* get_types_to_add.check_and_add, call by call                            *)

\* The clang types of results and arguments whose flattenings are handed to
\* check_and_add: struct W declared, defined and const-qualified, struct S,
\* enum E defined and declared, the typedef T, struct H with its anonymous
\* union.
ListCursorTypes == {12, 31, 32, 41, 43, 54, 57, 73, 77}
FlatTypes ==
    UNION {Range(Flattened(ExtractTopLevel(t).info)) : t \in ListCursorTypes}
MaxAdds == 3

\* types_to_add = OrderedDict() (line 154)
InitList ==
    /\ IdleStore /\ IdleGen /\ IdleRun /\ IdleArg /\ IdleStruct
    /\ list_od = <<>> /\ list_prev = <<>> /\ list_flat = None

\* check_and_add(flat_type, types_to_add, types_added)
CheckAndAddCall(flat_type) ==
    /\ Len(list_od) < MaxAdds
    /\ list_prev' = list_od
    /\ list_od' = CheckAndAdd(list_od, flat_type)
    /\ list_flat' = Some(flat_type)
    /\ UNCHANGED <<storeVars, genVars, runVars, argVars, structVars>>

NextList == \E flat_type \in FlatTypes : CheckAndAddCall(flat_type)

SpecList == InitList /\ [][NextList]_vars

\* A node with a non-empty field list or a non-empty constant list.
HasMembers(n) ==
    \/ (~IsNone(n.struct_fields) /\ Len(Get(n.struct_fields)) > 0)
    \/ (~IsNone(n.enum_constants) /\ Len(Get(n.enum_constants)) > 0)

\* The last call has put its candidate in the place of another node listed
\* under the candidate's name.
ListedBefore ==
    Lookup(list_prev, get_unqualified_type_name(Get(list_flat)))
ReplacedListed ==
    /\ ~IsNone(list_flat)
    /\ get_unqualified_type_name(Get(list_flat)) \in Keys(list_prev)
    /\ Lookup(list_od, get_unqualified_type_name(Get(list_flat))) /= ListedBefore

\* C23: a candidate whose unqualified name is listed replaces the listed
\* entry only if the candidate has a non-empty field or constant list and
\* the listed entry is structural with an empty one: an entry that is not
\* structural, is anonymous or is fully defined is never replaced, and a
\* listed forward declaration is not replaced by a candidate without
\* fields or constants.
C23_ReplacedOnlyByFullerCandidate ==
    ReplacedListed =>
        /\ HasMembers(Get(list_flat))
        /\ ListedBefore.is_structural
        /\ ~ListedBefore.struct_anonymous
        /\ ~HasMembers(ListedBefore)

-----------------------------------------------------------------------------
(* output_formatter.output_c_struct on nodes built by hand, as a test       *)
(* builds them: a struct or a union named O with up to MaxFields fields,    *)
(* each of another form.                                                    *)

\* struct Inner { int a; } and union Inner { int a; }, named and not
\* elaborated: the nodes of the record types themselves.
Aggregate(keyword, tag, struct_type, fields) ==
    [TypeInfo(Tag(keyword, tag)) EXCEPT
        !.base_type = Some(Tag(keyword, tag)),
        !.is_structural = TRUE,
        !.struct_type = Some(struct_type),
        !.struct_fields = Some(fields)]
InnerStruct == Aggregate("struct", "Inner", "STRUCT", <<StructField(<<"a">>, TestInt)>>)
InnerUnion == Aggregate("union", "Inner", "UNION", <<StructField(<<"a">>, TestInt)>>)
\* union { int i; char l; }, as extract_type_info names and flags it.
UnnamedUnion ==
    [Aggregate("union", "(unnamed union at f.h:3:5)", "UNION",
               <<StructField(<<"i">>, TestInt), StructField(<<"l">>, TestChar)>>)
        EXCEPT !.struct_anonymous = TRUE, !.is_elaborated = TRUE]
SizedIntArray ==
    [TypeInfo(<<"int", "[", "4", "]">>) EXCEPT
        !.base_type = Some(<<"int", "[", "]">>), !.is_array = TRUE,
        !.array_size = Some(4), !.array_element = Some(TestInt)]
PtrToFunc ==
    [TypeInfo(<<"void", SP, "(", "*", ")", "(", "int", ")">>)
        EXCEPT !.pointer_to = Some(TestFuncPtr)]

\* The fields: a primitive, a sized and an unsized array, a pointer to a
\* function, an elaborated struct, an anonymous union, and a named struct
\* and a named union that are not elaborated.
FieldPool ==
    {StructField(<<"x">>, TestInt),
     StructField(<<"arr">>, SizedIntArray),
     StructField(<<"tail">>, TestIntArray),
     StructField(<<"cb">>, PtrToFunc),
     StructField(<<"ref">>, [InnerStruct EXCEPT !.is_elaborated = TRUE]),
     StructField(<<"u">>, UnnamedUnion),
     StructField(<<"in">>, InnerStruct),
     StructField(<<"iu">>, InnerUnion)}

\* How many fields a node of the check has.
MaxFields == 2

FieldLists ==
    {fields \in UNION {[1..n -> FieldPool] : n \in 1..MaxFields} :
        \A i, j \in 1..Len(fields) : fields[i] = fields[j] => i = j}
StructNodes ==
    {[Aggregate(kind[1], "O", kind[2], fields) EXCEPT !.is_elaborated = TRUE] :
        kind \in {<<"struct", "STRUCT">>, <<"union", "UNION">>}, fields \in FieldLists}

InitStruct ==
    /\ IdleStore /\ IdleGen /\ IdleRun /\ IdleArg /\ IdleList
    /\ struct_arg \in {Some(n) : n \in StructNodes}
    /\ struct_out = None

\* output_c_struct(struct_info), as format_output_header calls it.
OutputCStruct ==
    /\ IsNone(struct_out)
    /\ struct_out' = Some(output_c_struct(Get(struct_arg), C_INDENT, <<>>))
    /\ UNCHANGED <<struct_arg, storeVars, genVars, runVars, argVars, listVars>>

NextStruct == OutputCStruct

SpecStruct == InitStruct /\ [][NextStruct]_vars

\* The line holds the name.
Names(line, name) ==
    \E k \in 1..(Len(line) - Len(name) + 1) :
        SubSeq(line, k, k + Len(name) - 1) = name

\* C30: every field of a struct or a union that output_c_struct renders has
\* a declaration that holds the name of the field, also a field whose type
\* is a nested aggregate that has a name, is not elaborated and is rendered
\* inline.
C30_EveryFieldIsDeclared ==
    ~IsNone(struct_out) =>
        /\ Get(struct_out).ok
        /\ \A f \in Range(Get(Get(struct_arg).struct_fields)) :
               \E i \in 1..Len(Get(struct_out).lines) :
                   Names(Get(struct_out).lines[i], f.name)

=============================================================================
